---- MODULE Spec2Model ----
(***************************************************************************)
(* jtop: the sampling-and-state engine (App::new, App::tick) and the       *)
(* key handler (handle_key_events), as a state machine.                    *)
(*                                                                         *)
(* Strings that the code inspects character by character (device names,    *)
(* the search text) are sequences of one-character strings.  An f64 is an  *)
(* exact fraction <<numerator, denominator>> in lowest terms.              *)
(***************************************************************************)
EXTENDS Integers, Sequences, FiniteSets, TLC

VARIABLES
    host,           \* the name of the environment the program runs in (never changes)
    now,            \* the monotonic clock read by Instant::now()
    crashed,        \* the process has panicked (arithmetic overflow in a checked build)
    running,        \* App.running
    input_state,    \* App.input_state
    cpu_history,    \* App.cpu_history : Vec<VecDeque<f64>>
    mem_history,    \* App.mem_history : VecDeque<f64>
    mem_total,      \* App.mem_total
    mem_prefix,     \* App.mem_prefix
    processes,      \* App.processes : Vec<ProcessInfo>
    disks,          \* App.disks : BTreeMap<String, (DiskInfo, VecDeque<DiskInfo>)>
    cpus,           \* App.system.cpus() : the usages cached by the last refresh_cpu()
    last_refresh,   \* App.last_refresh
    ev,             \* history: the last event handled, with what the provider returned
    log,            \* history: every sample pushed into each window, in push order,
                    \* and every cumulative pair read for each device
    origin          \* history: <<the sort mode search was entered from>> while searching,
                    \* <<that sort mode, the text typed>> right after search is left

vars == <<host, now, crashed, running, input_state, cpu_history, mem_history,
          mem_total, mem_prefix, processes, disks, cpus, last_refresh, ev, log, origin>>

appData == <<cpu_history, mem_history, mem_total, mem_prefix, processes, disks,
             cpus, last_refresh>>

(***************************************************************************)
(* Bounds of the model.                                                    *)
(***************************************************************************)
\* app.rs:12 sets HISTORY_LEN to 64.  The model is parametric in the window
\* length and is checked with a short window, so that a window fills and wraps.
HISTORY_LEN == 3
\* Ticks delivered in the longest session: every window fills and wraps once.
MaxTicks == HISTORY_LEN + 1
\* Longest search text typed.
MaxSearchLen == 2
\* Width of usize in bits (16 is the narrowest Rust target).
UsizeBits == 16
\* Width of i64 in bits (64 in the source; the model's scores stay far below it).
I64Bits == 16
\* Longest process list displayed.
MaxProcs == 3
\* Largest byte count scaled, as a power of 1024 (1024^6 bytes is past Peta).
MaxExponent == 7

(***************************************************************************)
(* Arithmetic helpers.                                                     *)
(***************************************************************************)
RECURSIVE Pow(_, _)
Pow(b, e) == IF e = 0 THEN 1 ELSE b * Pow(b, e - 1)

RECURSIVE GCD(_, _)
GCD(a, b) == IF b = 0 THEN a ELSE GCD(b, a % b)

\* The f64 n/d (d > 0, n >= 0) as an exact fraction in lowest terms.
Frac(n, d) == LET g == GCD(n, d) IN <<n \div g, d \div g>>

F64(n) == Frac(n, 1)

FracLess(x, y) == x[1] * y[2] < y[1] * x[2]

UsizeModulus == Pow(2, UsizeBits)

Last(s) == s[Len(s)]

Range(s) == {s[i] : i \in 1..Len(s)}

\* The last n elements of s (all of s when it is shorter).
LastN(s, n) == IF Len(s) <= n THEN s ELSE SubSeq(s, Len(s) - n + 1, Len(s))

Repeat(x, n) == [i \in 1..n |-> x]

(***************************************************************************)
(* Characters and strings.                                                 *)
(***************************************************************************)
Digits == {"0", "1", "2", "3", "4", "5", "6", "7", "8", "9"}

LowerLetters == {"a", "b", "c", "d", "e", "f", "g", "h", "i", "j", "k", "l", "m",
                 "n", "o", "p", "q", "r", "s", "t", "u", "v", "w", "x", "y", "z"}

\* The characters in code-point order (String's Ord is byte-wise).
CharOrder == <<"/", "0", "1", "2", "3", "4", "5", "6", "7", "8", "9",
               "A", "B", "C", "D", "E", "F", "G", "H", "I", "J", "K", "L", "M",
               "N", "O", "P", "Q", "R", "S", "T", "U", "V", "W", "X", "Y", "Z",
               "a", "b", "c", "d", "e", "f", "g", "h", "i", "j", "k", "l", "m",
               "n", "o", "p", "q", "r", "s", "t", "u", "v", "w", "x", "y", "z">>

CharCode(c) == CHOOSE i \in 1..Len(CharOrder) : CharOrder[i] = c

\* s < t in String's lexicographic order.
StrLess(s, t) ==
    \E k \in 0..Len(s) :
        /\ k <= Len(t)
        /\ \A i \in 1..k : s[i] = t[i]
        /\ \/ k = Len(s) /\ k < Len(t)
           \/ k < Len(s) /\ k < Len(t) /\ CharCode(s[k + 1]) < CharCode(t[k + 1])

\* The elements of a finite set of strings in ascending order (BTreeMap iteration).
RECURSIVE SortedNames(_)
SortedNames(S) ==
    IF S = {} THEN <<>>
    ELSE LET m == CHOOSE x \in S : \A y \in S \ {x} : StrLess(x, y)
         IN  <<m>> \o SortedNames(S \ {m})

\* s[i..] is one or more characters of class C followed by exactly the end.
AllIn(s, from, to, C) == from <= to /\ \A i \in from..to : s[i] \in C

HasPrefix(s, p) == Len(s) >= Len(p) /\ SubSeq(s, 1, Len(p)) = p

(***************************************************************************)
(* app.rs: DiskInfo, DiskRegexes, MemPrefix, the history windows.          *)
(***************************************************************************)
\* DiskInfo::default()
DiskInfoDefault == [r_sectors |-> 0, w_sectors |-> 0]

\* DiskInfo::new(stats)
DiskInfoNew(stats) == [r_sectors |-> stats.read_sectors, w_sectors |-> stats.write_sectors]

\* ^nvme[0-9]+n[0-9]+$
MatchNvme(s) ==
    /\ HasPrefix(s, <<"n", "v", "m", "e">>)
    /\ \E k \in 5..Len(s) :
           /\ AllIn(s, 5, k, Digits)
           /\ k + 1 <= Len(s) /\ s[k + 1] = "n"
           /\ AllIn(s, k + 2, Len(s), Digits)

\* ^sd[a-z]+$
MatchSd(s) == HasPrefix(s, <<"s", "d">>) /\ AllIn(s, 3, Len(s), LowerLetters)

\* ^hd[a-z]+$
MatchHd(s) == HasPrefix(s, <<"h", "d">>) /\ AllIn(s, 3, Len(s), LowerLetters)

\* ^disk[0-9]+$
MatchDisk(s) == HasPrefix(s, <<"d", "i", "s", "k">>) /\ AllIn(s, 5, Len(s), Digits)

\* DiskRegexes::is_disk
is_disk(name) == MatchNvme(name) \/ MatchSd(name) \/ MatchHd(name) \/ MatchDisk(name)

MULTIPLIER == 1024

\* A byte magnitude as an f64: <<m, e>> is m * MULTIPLIER^e, in the canonical form
\* where m is no multiple of MULTIPLIER (and zero is <<0, 0>>).  Dividing and
\* multiplying by MULTIPLIER, a power of two, is exact in f64.
RECURSIVE Scaled(_, _)
Scaled(m, e) ==
    IF m = 0 THEN <<0, 0>>
    ELSE IF m % MULTIPLIER = 0 THEN Scaled(m \div MULTIPLIER, e + 1)
    ELSE <<m, e>>

\* x < MULTIPLIER (m stays below 2^31, so it is below MULTIPLIER^4)
ScaledBelowMultiplier(x) ==
    \/ x[1] = 0
    \/ x[2] <= 0 /\ (1 - x[2] >= 4 \/ x[1] < Pow(MULTIPLIER, 1 - x[2]))

PREFIXES == <<"Byte", "Kilo", "Mega", "Giga", "Tera", "Peta">>

\* `self as i32`
PrefixIndex(p) == (CHOOSE i \in 1..Len(PREFIXES) : PREFIXES[i] = p) - 1

\* MemPrefix::find_best: the loop over PREFIXES from position i, then the fall-through.
RECURSIVE FindBestFrom(_, _)
FindBestFrom(bytes, i) ==
    IF i > Len(PREFIXES)
    THEN <<Scaled(bytes[1], bytes[2] + 1), Last(PREFIXES)>>
    ELSE IF ScaledBelowMultiplier(bytes)
         THEN <<bytes, PREFIXES[i]>>
         ELSE FindBestFrom(Scaled(bytes[1], bytes[2] - 1), i + 1)

FindBestSkipByte(bytes) == FindBestFrom(bytes, 2)

find_best(bytes) == FindBestFrom(bytes, 1)

\* MemPrefix::best_string, before formatting: the pair find_best returns
best_string(bytes) == find_best(bytes)

ConvertBest(prefix, bytes) == find_best(bytes)[1]

\* MemPrefix::convert
convert(prefix, bytes) == Scaled(bytes[1], bytes[2] - PrefixIndex(prefix))

\* vec![zero; HISTORY_LEN].into()
NewWindow(zero) == Repeat(zero, HISTORY_LEN)

\* history.pop_front()
PopFront(window) == IF window = <<>> THEN <<>> ELSE Tail(window)

PushStack(window, sample) == <<sample>> \o SubSeq(window, 1, Len(window) - 1)

PushGrow(window, sample) == Append(window, sample)

\* history.pop_front(); history.push_back(sample)
Push(window, sample) == Append(PopFront(window), sample)

\* ProcessInfo::new(proc, cpu_amount)
ProcessInfoNew(proc, cpu_amount) ==
    [pid    |-> proc.pid,
     cpu    |-> Frac(proc.cpu_usage, cpu_amount),
     mem    |-> proc.memory,
     name   |-> proc.name,
     disk_r |-> proc.read_bytes,
     disk_w |-> proc.written_bytes]

CollectProcessesRaw(procs, cpu_amount) ==
    [i \in 1..Len(procs) |-> ProcessInfoNew(procs[i], 1)]

\* processes().values().map(|p| ProcessInfo::new(p, len)).collect()
CollectProcesses(procs, cpu_amount) ==
    [i \in 1..Len(procs) |-> ProcessInfoNew(procs[i], cpu_amount)]

(***************************************************************************)
(* ui/processes.rs: Column, SortDirection.  app.rs: InputState.            *)
(***************************************************************************)
ALL_COLUMNS == <<"Pid", "Name", "Cpu", "Memory", "DiskRead", "DiskWrite">>

Columns == Range(ALL_COLUMNS)

Directions == {"Ascending", "Descending"}

\* #[default] Cpu
ColumnDefault == "Cpu"

\* SortDirection::reversed
reversed(d) == IF d = "Ascending" THEN "Descending" ELSE "Ascending"

\* Column::default_sort_direction
default_sort_direction(c) ==
    IF c \in {"Pid", "Name"} THEN "Ascending" ELSE "Descending"

None == <<>>

Some(x) == <<x>>

unwrap_or(opt, dflt) == IF opt = None THEN dflt ELSE opt[1]

ProcessesSortSelection(c, d) ==
    [tag |-> "ProcessesSortSelection", column |-> c, direction |-> d]

ProcessesSearch(oc, od, s) ==
    [tag |-> "ProcessesSearch", old_column |-> oc, old_direction |-> od, search |-> s]

InputStateSearching == ProcessesSearch(None, None, <<>>)

\* InputState::default()
InputStateDefault ==
    ProcessesSortSelection(ColumnDefault, default_sort_direction(ColumnDefault))

InSort(st) == st.tag = "ProcessesSortSelection"

InSearch(st) == st.tag = "ProcessesSearch"

(***************************************************************************)
(* handler.rs: handle_key_events.                                          *)
(* A key event is [code |-> [t, c], modifiers |-> a set, kind |-> ...];    *)
(* c is the character of KeyCode::Char and "" otherwise.                   *)
(***************************************************************************)
Char(c) == [t |-> "Char", c |-> c]

Esc == [t |-> "Esc", c |-> ""]

Backspace == [t |-> "Backspace", c |-> ""]

Enter == [t |-> "Enter", c |-> ""]

Key(code, modifiers, kind) == [code |-> code, modifiers |-> modifiers, kind |-> kind]

IsChar(key, cs) == key.code.t = "Char" /\ key.code.c \in cs

PressOrRepeat(key) == key.kind \in {"Press", "Repeat"}

ChangeAlwaysDefault(st, selected_column) ==
    IF InSort(st)
    THEN ProcessesSortSelection(selected_column, default_sort_direction(selected_column))
    ELSE st

\* change_processes_sort_into
change_processes_sort_into(st, selected_column) ==
    IF InSort(st)
    THEN IF st.column = selected_column
         THEN [st EXCEPT !.direction = reversed(st.direction)]
         ELSE ProcessesSortSelection(selected_column,
                                     default_sort_direction(selected_column))
    ELSE st

\* The column a key selects in the sort-selection arm (handler.rs 46-68), or None.
SortKeyColumn(key) ==
    IF IsChar(key, {"c", "C"}) THEN Some("Cpu")
    ELSE IF IsChar(key, {"p", "P"}) THEN Some("Pid")
    ELSE IF IsChar(key, {"n", "N"}) THEN Some("Name")
    ELSE IF IsChar(key, {"m", "M"}) THEN Some("Memory")
    ELSE IF IsChar(key, {"r", "R"}) THEN Some("DiskRead")
    ELSE IF IsChar(key, {"w", "W"}) THEN Some("DiskWrite")
    ELSE None

EnterSearchForgetting(column, direction) == ProcessesSearch(None, None, <<>>)

\* handler.rs 34-40: KeyCode::Char('/') in the sort-selection arm
EnterSearch(column, direction) ==
    ProcessesSearch(Some(column), Some(direction), <<>>)

CancelToDefault(old_column, old_direction) == InputStateDefault

\* handler.rs 80-84: KeyCode::Esc in the search arm
CancelSearch(old_column, old_direction) ==
    LET column    == unwrap_or(old_column, ColumnDefault)
        direction == unwrap_or(old_direction, default_sort_direction(column))
    IN  ProcessesSortSelection(column, direction)

IsCtrlCNever(key) == FALSE

\* handler.rs 20-27: Ctrl-C, with CONTROL as the only modifier
IsCtrlC(key) == IsChar(key, {"c", "C"}) /\ key.modifiers = {"CONTROL"}

\* handler.rs 33-72: the ProcessesSortSelection arm
SortSelectionArm(key, st, run) ==
    IF IsChar(key, {"/"})
    THEN [running |-> run, input_state |-> EnterSearch(st.column, st.direction)]
    ELSE IF IsChar(key, {"q"})
    THEN [running |-> FALSE, input_state |-> st]
    ELSE IF SortKeyColumn(key) # None
    THEN [running |-> run,
          input_state |-> change_processes_sort_into(st, SortKeyColumn(key)[1])]
    ELSE [running |-> run, input_state |-> st]

SearchArmNoTyping(key, st, run) ==
    IF key.code = Esc
    THEN [running |-> run,
          input_state |-> CancelSearch(st.old_column, st.old_direction)]
    ELSE IF key.code = Backspace /\ PressOrRepeat(key) /\ st.search # <<>>
    THEN [running |-> run,
          input_state |-> [st EXCEPT !.search = SubSeq(st.search, 1, Len(st.search) - 1)]]
    ELSE [running |-> run, input_state |-> st]

SearchArmEraseFirst(key, st, run) ==
    IF key.code = Esc
    THEN [running |-> run,
          input_state |-> CancelSearch(st.old_column, st.old_direction)]
    ELSE IF IsChar(key, {"w", "W"}) /\ "CONTROL" \in key.modifiers
    THEN [running |-> run, input_state |-> [st EXCEPT !.search = <<>>]]
    ELSE IF key.code.t = "Char" /\ PressOrRepeat(key)
    THEN [running |-> run,
          input_state |-> [st EXCEPT !.search = Append(st.search, key.code.c)]]
    ELSE IF key.code = Backspace /\ PressOrRepeat(key)
    THEN [running |-> run,
          input_state |-> [st EXCEPT !.search =
                               IF st.search = <<>> THEN <<>> ELSE Tail(st.search)]]
    ELSE [running |-> run, input_state |-> st]

\* handler.rs 74-109: the ProcessesSearch arm
SearchArm(key, st, run) ==
    IF key.code = Esc
    THEN [running |-> run,
          input_state |-> CancelSearch(st.old_column, st.old_direction)]
    ELSE IF IsChar(key, {"w", "W"}) /\ "CONTROL" \in key.modifiers
    THEN [running |-> run, input_state |-> [st EXCEPT !.search = <<>>]]
    ELSE IF key.code.t = "Char" /\ PressOrRepeat(key)
    THEN [running |-> run,
          input_state |-> [st EXCEPT !.search = Append(st.search, key.code.c)]]
    ELSE IF key.code = Backspace /\ PressOrRepeat(key)
    THEN [running |-> run,
          input_state |-> [st EXCEPT !.search =
                               IF st.search = <<>> THEN <<>>
                               ELSE SubSeq(st.search, 1, Len(st.search) - 1)]]
    ELSE [running |-> run, input_state |-> st]

HandleKeyQuitFirst(key, st, run) ==
    IF IsCtrlC(key) \/ IsChar(key, {"q"})
    THEN [running |-> FALSE, input_state |-> st]
    ELSE IF InSort(st) THEN SortSelectionArm(key, st, run)
    ELSE SearchArm(key, st, run)

\* handle_key_events
handle_key_events(key, st, run) ==
    IF IsCtrlC(key)
    THEN [running |-> FALSE, input_state |-> st]
    ELSE IF InSort(st) THEN SortSelectionArm(key, st, run)
    ELSE SearchArm(key, st, run)

(***************************************************************************)
(* app.rs: App::tick, the disk part (269-286).                             *)
(***************************************************************************)
\* System::MINIMUM_CPU_UPDATE_INTERVAL (200 ms on Linux), in milliseconds
MINIMUM_CPU_UPDATE_INTERVAL == 200

\* main.rs: TICK_RATE, in milliseconds
TICK_RATE == 1000

UnwrapOrZeroed(blk) ==
    IF blk.ok THEN blk.stats
    ELSE (<<"s", "d", "a">> :> [read_sectors |-> 0, write_sectors |-> 0])

\* block_device_statistics().unwrap_or_default(): a failure is the empty map
UnwrapOrDefault(blk) == IF blk.ok THEN blk.stats ELSE <<>>

\* .filter(|(n, _)| disk_regexes.is_disk(n)), in the map's key order
DiskNames(stats) == SortedNames({n \in DOMAIN stats : is_disk(n)})

\* usize `a - b` wrapped to the width of usize (a build without overflow checks)
WrappingSub(a, b) == (a - b + UsizeModulus) % UsizeModulus

\* usize `a - b` panics in a build with overflow checks when b > a
SubOverflows(a, b) == a < b

DiskStepKeepPrev(entry, current, checked) ==
    [entry |-> [prev |-> entry.prev,
                history |-> Push(entry.history,
                                 [r_sectors |-> current.r_sectors - entry.prev.r_sectors,
                                  w_sectors |-> current.w_sectors - entry.prev.w_sectors])],
     panicked |-> FALSE,
     pushed |-> <<[r_sectors |-> current.r_sectors - entry.prev.r_sectors,
                   w_sectors |-> current.w_sectors - entry.prev.w_sectors]>>]

DiskStepFromZero(entry, current, checked) ==
    [entry    |-> [prev |-> current, history |-> Push(entry.history, current)],
     panicked |-> FALSE,
     pushed   |-> <<current>>]

DiskStepNoSpike(entry, current, checked) ==
    IF entry.prev = DiskInfoDefault
    THEN [entry    |-> [prev |-> current, history |-> Push(entry.history, DiskInfoDefault)],
          panicked |-> FALSE,
          pushed   |-> <<DiskInfoDefault>>]
    ELSE [entry    |-> [prev |-> current,
                        history |-> Push(entry.history,
                            [r_sectors |-> WrappingSub(current.r_sectors, entry.prev.r_sectors),
                             w_sectors |-> WrappingSub(current.w_sectors, entry.prev.w_sectors)])],
          panicked |-> FALSE,
          pushed   |-> <<[r_sectors |-> WrappingSub(current.r_sectors, entry.prev.r_sectors),
                          w_sectors |-> WrappingSub(current.w_sectors, entry.prev.w_sectors)]>>]

\* app.rs 280-285: one device's pop_front, push_back of the delta, *prev = current.
\* In a build with overflow checks a subtraction that would go below zero panics
\* after pop_front has run; `pushed` is what was handed to push_back.
DiskStep(entry, current, checked) ==
    LET prev  == entry.prev
        delta == [r_sectors |-> WrappingSub(current.r_sectors, prev.r_sectors),
                  w_sectors |-> WrappingSub(current.w_sectors, prev.w_sectors)]
    IN  IF checked /\ (\/ SubOverflows(current.r_sectors, prev.r_sectors)
                       \/ SubOverflows(current.w_sectors, prev.w_sectors))
        THEN [entry    |-> [prev |-> prev, history |-> PopFront(entry.history)],
              panicked |-> TRUE,
              pushed   |-> <<>>]
        ELSE [entry    |-> [prev |-> current, history |-> Push(entry.history, delta)],
              panicked |-> FALSE,
              pushed   |-> <<delta>>]

\* self.disks.entry(name).or_insert((Default::default(), vec![Default::default(); HISTORY_LEN].into()))
EntryOrInsert(table, name) ==
    IF name \in DOMAIN table THEN table[name]
    ELSE [prev |-> DiskInfoDefault, history |-> NewWindow(DiskInfoDefault)]

RECURSIVE RefreshDisksPruning(_, _, _, _)
RefreshDisksPruning(names, stats, table, checked) ==
    IF names = <<>>
    THEN [disks |-> table, panicked |-> FALSE, pushed |-> <<>>]
    ELSE LET name   == Head(names)
             step   == DiskStep(EntryOrInsert(table, name), DiskInfoNew(stats[name]), checked)
             table1 == (name :> step.entry)
                         @@ [m \in DOMAIN table \cap DOMAIN stats |-> table[m]]
         IN  IF step.panicked
             THEN [disks |-> table1, panicked |-> TRUE, pushed |-> <<>>]
             ELSE LET rest == RefreshDisksPruning(Tail(names), stats, table1, checked)
                  IN  [rest EXCEPT !.pushed = (name :> step.pushed[1]) @@ rest.pushed]

RECURSIVE RefreshDisksZeroAbsent(_, _, _, _)
RefreshDisksZeroAbsent(names, stats, table, checked) ==
    IF names = <<>>
    THEN [disks |-> [m \in DOMAIN table |->
                        IF m \in DOMAIN stats THEN table[m]
                        ELSE [table[m] EXCEPT !.history = Push(@, DiskInfoDefault)]],
          panicked |-> FALSE, pushed |-> <<>>]
    ELSE LET name   == Head(names)
             step   == DiskStep(EntryOrInsert(table, name), DiskInfoNew(stats[name]), checked)
             table1 == (name :> step.entry) @@ table
         IN  IF step.panicked
             THEN [disks |-> table1, panicked |-> TRUE, pushed |-> <<>>]
             ELSE LET rest == RefreshDisksZeroAbsent(Tail(names), stats, table1, checked)
                  IN  [rest EXCEPT !.pushed = (name :> step.pushed[1]) @@ rest.pushed]

\* app.rs 275-286: the for_each over the filtered devices, in key order.  The
\* result is the table, whether a subtraction panicked, and per device processed
\* to the end the delta handed to push_back.
RECURSIVE RefreshDisks(_, _, _, _)
RefreshDisks(names, stats, table, checked) ==
    IF names = <<>>
    THEN [disks |-> table, panicked |-> FALSE, pushed |-> <<>>]
    ELSE LET name   == Head(names)
             step   == DiskStep(EntryOrInsert(table, name), DiskInfoNew(stats[name]), checked)
             table1 == (name :> step.entry) @@ table
         IN  IF step.panicked
             THEN [disks |-> table1, panicked |-> TRUE, pushed |-> <<>>]
             ELSE LET rest == RefreshDisks(Tail(names), stats, table1, checked)
                  IN  [rest EXCEPT !.pushed = (name :> step.pushed[1]) @@ rest.pushed]

\* app.rs 201-211: the disk table App::new builds
NewDisks(blk) ==
    LET stats == UnwrapOrDefault(blk)
    IN  [n \in {m \in DOMAIN stats : is_disk(m)} |->
            [prev |-> DiskInfoNew(stats[n]), history |-> NewWindow(DiskInfoDefault)]]

PushCpusResizing(history, usage) ==
    [i \in 1..Len(usage) |->
        Push(IF i <= Len(history) THEN history[i] ELSE NewWindow(F64(0)), F64(usage[i]))]

\* app.rs 247-253: cpu_history.iter_mut().zip(cpus).for_each(pop_front; push_back)
PushCpus(history, usage) ==
    [i \in 1..Len(history) |->
        IF i <= Len(usage) THEN Push(history[i], F64(usage[i])) ELSE history[i]]

DueAlways(t, last) == TRUE

\* app.rs 243: last_refresh.elapsed() >= System::MINIMUM_CPU_UPDATE_INTERVAL
Due(t, last) == t - last >= MINIMUM_CPU_UPDATE_INTERVAL

(***************************************************************************)
(* ui/processes.rs: Column::compare_by, Processes::new, Widget::render.    *)
(* An Ordering is "Less", "Equal" or "Greater".                            *)
(***************************************************************************)
\* char::to_lowercase on the model's alphabet
LowerChar(c) ==
    IF CharCode(c) \in CharCode("A")..CharCode("Z")
    THEN CharOrder[CharCode(c) - CharCode("A") + CharCode("a")]
    ELSE c

\* str::to_lowercase
to_lowercase(s) == [i \in 1..Len(s) |-> LowerChar(s[i])]

\* Ord::cmp on integers
IntCmp(a, b) == IF a < b THEN "Less" ELSE IF a = b THEN "Equal" ELSE "Greater"

\* Ord::cmp on strings
StrCmp(s, t) == IF StrLess(s, t) THEN "Less" ELSE IF s = t THEN "Equal" ELSE "Greater"

\* f64::total_cmp on the finite non-negative values of the model
total_cmp(x, y) ==
    IF FracLess(x, y) THEN "Less" ELSE IF FracLess(y, x) THEN "Greater" ELSE "Equal"

\* Ordering::reverse
reverse(o) == IF o = "Less" THEN "Greater" ELSE IF o = "Greater" THEN "Less" ELSE "Equal"

\* Column::compare_by
compare_by(column, p1, p2) ==
    CASE column = "Pid"       -> IntCmp(p1.pid, p2.pid)
      [] column = "Name"      -> StrCmp(to_lowercase(p1.name), p2.name)
      [] column = "Cpu"       -> total_cmp(p1.cpu, p2.cpu)
      [] column = "Memory"    -> IntCmp(p1.mem, p2.mem)
      [] column = "DiskRead"  -> IntCmp(p1.disk_r, p2.disk_r)
      [] column = "DiskWrite" -> IntCmp(p1.disk_w, p2.disk_w)

\* processes.rs 163-166: the closure given to sort_by
SortClosure(column, direction, p1, p2) ==
    IF direction = "Ascending" THEN compare_by(column, p1, p2)
    ELSE reverse(compare_by(column, p1, p2))

\* i64::MAX
I64_MAX == Pow(2, I64Bits - 1) - 1

\* What SkimMatcherV2::fuzzy_indices may answer for one name: no match, or a score.
Scores == {-3, 0, 7}

MatcherAnswers == {None} \cup {Some(x) : x \in Scores}

SearchKeyRaw(scores, p) ==
    IF scores[p.name] # None THEN scores[p.name][1] ELSE I64_MAX

\* processes.rs 171-177: the closure given to sort_by_key; `scores` is what the
\* matcher answers for each name and the search text
SearchKey(scores, p) ==
    IF scores[p.name] # None THEN -scores[p.name][1] ELSE I64_MAX

\* The is_less the standard library's sort derives from the closure:
\* compare(a, b) == Less for sort_by, key(a) < key(b) for sort_by_key.
is_less(sorting, scores, a, b) ==
    IF InSort(sorting)
    THEN SortClosure(sorting.column, sorting.direction, a, b) = "Less"
    ELSE SearchKey(scores, a) < SearchKey(scores, b)

\* The stable sort of a short slice (the standard library's insertion sort): x moves
\* left past every element it is less than and stops at the first it is not.
RECURSIVE InsertTail(_, _, _, _)
InsertTail(sorted, x, sorting, scores) ==
    IF sorted = <<>> \/ ~is_less(sorting, scores, x, Last(sorted))
    THEN Append(sorted, x)
    ELSE Append(InsertTail(SubSeq(sorted, 1, Len(sorted) - 1), x, sorting, scores),
                Last(sorted))

\* self.processes.sort_by(..) / self.processes.sort_by_key(..)
RECURSIVE StableSort(_, _, _)
StableSort(list, sorting, scores) ==
    IF list = <<>> THEN <<>>
    ELSE InsertTail(StableSort(SubSeq(list, 1, Len(list) - 1), sorting, scores),
                    Last(list), sorting, scores)

\* Processes::new(app): the widget owns clones of the list and of the input state
ProcessesNew(app_processes, app_input_state) ==
    [processes |-> app_processes, sorting |-> app_input_state]

\* Widget::render for Processes, 160-179: the rows in display order (the table is
\* built from them, one row per process, in this order)
render(self, scores) == StableSort(self.processes, self.sorting, scores)

\* The names the matcher is asked about in a render (none in sort mode).
MatcherInputs(list, sorting) ==
    IF InSort(sorting) THEN {} ELSE {list[i].name : i \in 1..Len(list)}

(***************************************************************************)
(* The environments the program is run in.  A host fixes the build, what   *)
(* the metrics provider can return and which keys the user presses.        *)
(***************************************************************************)
Nvme0n1 == <<"n", "v", "m", "e", "0", "n", "1">>

Hda == <<"h", "d", "a">>

Loop0 == <<"l", "o", "o", "p", "0">>

Stats(r, w) == [read_sectors |-> r, write_sectors |-> w]

BlkOk(stats) == [ok |-> TRUE, stats |-> stats]

BlkErr == [ok |-> FALSE, stats |-> <<>>]

Proc(pid, name, cpu_usage, memory, read_bytes, written_bytes) ==
    [pid |-> pid, name |-> name, cpu_usage |-> cpu_usage, memory |-> memory,
     read_bytes |-> read_bytes, written_bytes |-> written_bytes]

Init1 == Proc(1, <<"i", "n", "i", "t">>, 10, 4096, 0, 0)

Sh2 == Proc(2, <<"s", "h">>, 190, 1024, 512, 64)

MiB(n) == Scaled(n, 2)

Plain(c) == Key(Char(c), {}, "Press")

CtrlC == Key(Char("c"), {"CONTROL"}, "Press")

\* overflow_checks: the build panics on arithmetic overflow (debug) or wraps (release);
\* ticks: how many ticks the session lasts; cpu, mem, procs, blk: what the provider
\* may return for the cores' usage, used memory, the process table and the block
\* devices; gaps: the time between a tick and the event before it; total: total
\* memory; keys: the key events the user may send.
QuietHost ==
    [name  |-> "quiet",
     overflow_checks |-> FALSE,
     ticks |-> 1,
     cpu   |-> {<<50>>},
     gaps  |-> {TICK_RATE},
     total |-> MiB(2048),
     mem   |-> {MiB(512)},
     procs |-> {<<Init1>>},
     blk   |-> {BlkOk(Nvme0n1 :> Stats(100, 50))},
     keys  |-> {CtrlC}]

\* A user choosing sort columns and searching: the lower-case bindings.
ColumnsHost ==
    [QuietHost EXCEPT
        !.name = "columns",
        !.keys = {Plain("/"), Plain("c"), Plain("p"), Plain("n"), Plain("m"),
                  Plain("r"), Plain("w"),
                  CtrlC,
                  Key(Esc, {}, "Press")}]

\* A user typing and editing a search: the editing keys, repeats and releases.
TypingHost ==
    [QuietHost EXCEPT
        !.name = "typing",
        !.keys = {Plain("/"), Plain("q"), Plain("a"), Plain("p"), Plain("w"),
                  CtrlC,
                  Key(Char("w"), {"CONTROL"}, "Press"),
                  Key(Esc, {}, "Press"),
                  Key(Backspace, {}, "Press"),
                  Key(Enter, {}, "Press"),
                  Key(Char("a"), {}, "Repeat"),
                  Key(Char("p"), {}, "Release"),
                  Key(Esc, {}, "Release"),
                  Key(Backspace, {}, "Release")}]

\* A user holding Shift: the upper-case bindings.
ShiftHost ==
    [QuietHost EXCEPT
        !.name = "shift",
        !.keys = {Plain("/"),
                  Key(Char("C"), {"SHIFT"}, "Press"), Key(Char("P"), {"SHIFT"}, "Press"),
                  Key(Char("N"), {"SHIFT"}, "Press"), Key(Char("M"), {"SHIFT"}, "Press"),
                  Key(Char("R"), {"SHIFT"}, "Press"), Key(Char("W"), {"SHIFT"}, "Press"),
                  Key(Char("C"), {"CONTROL", "SHIFT"}, "Press"),
                  Key(Char("W"), {"CONTROL", "SHIFT"}, "Press"),
                  Key(Char("c"), {"CONTROL"}, "Release"),
                  Key(Esc, {}, "Press")}]

\* Two cores, ticks that arrive late or early.
CpuHost ==
    [QuietHost EXCEPT
        !.name = "cpu",
        !.ticks = MaxTicks,
        !.total = MiB(768),
        !.cpu = {<<10, 90>>, <<90, 10>>},
        !.gaps = {TICK_RATE, 100}]

\* Memory use and the process table change from tick to tick.
MemHost ==
    [QuietHost EXCEPT
        !.name = "mem",
        !.ticks = MaxTicks,
        !.cpu = {<<50, 50>>},
        !.mem = {MiB(512), MiB(1536)},
        !.procs = {<<Init1, Sh2>>, <<Sh2>>},
        !.keys = {CtrlC, Plain("/")}]

\* Block devices that appear, disappear, fail to enumerate, and whose counters
\* go back; built without overflow checks (release).
DiskHost ==
    [QuietHost EXCEPT
        !.name = "disk",
        !.ticks = MaxTicks,
        !.blk = {BlkErr,
                 BlkOk(Loop0 :> Stats(7, 9)),
                 BlkOk(Nvme0n1 :> Stats(100, 50)),
                 BlkOk(Nvme0n1 :> Stats(150, 80) @@ Hda :> Stats(9, 4)),
                 BlkOk(Nvme0n1 :> Stats(150, 90) @@ Hda :> Stats(5, 4)
                       @@ Loop0 :> Stats(8, 9))}]

\* The same, built with overflow checks (debug).
DiskHostChecked == [DiskHost EXCEPT !.name = "disk-checked", !.overflow_checks = TRUE]

Hosts == {ColumnsHost, TypingHost, ShiftHost, CpuHost, MemHost, DiskHost, DiskHostChecked}

\* A machine whose provider reports another number of cores from one refresh to
\* the next (two at startup, then one, two or three).
HotplugHost ==
    [QuietHost EXCEPT
        !.name = "hotplug",
        !.ticks = MaxTicks,
        !.cpu = {<<10, 90>>, <<40>>, <<10, 20, 30>>},
        !.procs = {<<Sh2>>},
        !.keys = {CtrlC, Plain("c")}]

\* The host the program runs on.
env == CHOOSE h \in Hosts \cup {HotplugHost} : h.name = host

(***************************************************************************)
(* App::new                                                                *)
(***************************************************************************)
NewApp(h, cpuR, procR, blkR) ==
    /\ host = h.name
    /\ now = 0
    /\ crashed = FALSE
    /\ running = TRUE
    /\ input_state = InputStateDefault
    /\ cpus = cpuR
    /\ last_refresh = 0
    /\ disks = NewDisks(blkR)
    /\ cpu_history = [i \in 1..Len(cpuR) |-> NewWindow(F64(0))]
    /\ mem_history = NewWindow(Scaled(0, 0))
    /\ mem_total = find_best(h.total)[1]
    /\ mem_prefix = find_best(h.total)[2]
    /\ processes = CollectProcesses(procR, Len(cpuR))
    /\ ev = [kind |-> "new", blk |-> blkR, procs |-> procR, cpu |-> cpuR]
    /\ log = [cpu  |-> [i \in 1..Len(cpuR) |-> <<>>],
              mem  |-> <<>>,
              disk |-> [n \in DOMAIN NewDisks(blkR) |-> <<>>],
              seen |-> [n \in DOMAIN NewDisks(blkR) |-> <<NewDisks(blkR)[n].prev>>]]
    /\ origin = None

Init ==
    \E h \in Hosts : \E cpuR \in h.cpu, procR \in h.procs, blkR \in h.blk :
        NewApp(h, cpuR, procR, blkR)

(***************************************************************************)
(* App::tick                                                               *)
(***************************************************************************)
Ticks == Len(log.mem)

LogDisks(pushed) ==
    [n \in DOMAIN log.disk \cup DOMAIN pushed |->
        LET old == IF n \in DOMAIN log.disk THEN log.disk[n] ELSE <<>>
        IN  IF n \in DOMAIN pushed THEN Append(old, pushed[n]) ELSE old]

\* Per device, the previous value its record was created with, followed by every
\* cumulative pair a tick was given for it.
LogSeen(stats) ==
    [n \in DOMAIN log.seen \cup Range(DiskNames(stats)) |->
        LET old == IF n \in DOMAIN log.seen THEN log.seen[n]
                   ELSE <<EntryOrInsert(disks, n).prev>>
        IN  IF n \in Range(DiskNames(stats))
            THEN Append(old, DiskInfoNew(stats[n])) ELSE old]

TickWith(dt, cpuR, memR, procR, blkR) ==
    LET t     == now + dt
        due   == Due(t, last_refresh)
        stats == UnwrapOrDefault(blkR)
        d     == RefreshDisks(DiskNames(stats), stats, disks, env.overflow_checks)
    IN  /\ now' = t
        /\ IF due
           THEN /\ cpus' = cpuR
                /\ last_refresh' = t
                /\ cpu_history' = PushCpus(cpu_history, cpuR)
           ELSE UNCHANGED <<cpus, last_refresh, cpu_history>>
        /\ mem_history' = Push(mem_history, convert(mem_prefix, memR))
        /\ processes' = CollectProcesses(procR, Len(cpus'))
        /\ disks' = d.disks
        /\ crashed' = d.panicked
        /\ ev' = [kind |-> "tick", dt |-> dt, due |-> due,
                  cpu |-> IF due THEN cpuR ELSE <<>>,
                  mem |-> memR, procs |-> procR, blk |-> blkR]
        /\ log' = [cpu  |-> [i \in 1..Len(log.cpu) |->
                                IF due /\ i <= Len(cpuR)
                                THEN Append(log.cpu[i], F64(cpuR[i])) ELSE log.cpu[i]],
                   mem  |-> Append(log.mem, convert(mem_prefix, memR)),
                   disk |-> LogDisks(d.pushed),
                   seen |-> LogSeen(stats)]
        /\ UNCHANGED <<host, running, input_state, mem_total, mem_prefix, origin>>

TickAfterQuit ==
    /\ ~crashed
    /\ Ticks < env.ticks
    /\ \E dt \in env.gaps, memR \in env.mem, procR \in env.procs, blkR \in env.blk :
         \E cpuR \in (IF Due(now + dt, last_refresh) THEN env.cpu ELSE {cpus}) :
            TickWith(dt, cpuR, memR, procR, blkR)

\* main.rs 43: Event::Tick => app.tick()
Tick ==
    /\ running /\ ~crashed
    /\ Ticks < env.ticks
    /\ \E dt \in env.gaps, memR \in env.mem, procR \in env.procs, blkR \in env.blk :
         \E cpuR \in (IF Due(now + dt, last_refresh) THEN env.cpu ELSE {cpus}) :
            TickWith(dt, cpuR, memR, procR, blkR)

KeyEventTwice ==
    /\ running /\ ~crashed
    /\ \E key \in env.keys :
         LET once == handle_key_events(key, input_state, running)
             r    == handle_key_events(key, once.input_state, once.running)
         IN  /\ InSearch(r.input_state) => Len(r.input_state.search) <= MaxSearchLen
             /\ running' = r.running
             /\ input_state' = r.input_state
             /\ ev' = [kind |-> "key", key |-> key]
             /\ origin' = IF InSort(input_state) /\ InSearch(r.input_state)
                          THEN <<input_state>>
                          ELSE IF InSearch(input_state) /\ InSort(r.input_state)
                          THEN <<origin[1], input_state.search>>
                          ELSE IF InSearch(r.input_state) THEN origin
                          ELSE <<>>
             /\ UNCHANGED <<host, now, crashed, appData, log>>

\* main.rs 44: Event::Key(key_event) => handle_key_events(key_event, &mut app)
KeyEvent ==
    /\ running /\ ~crashed
    /\ \E key \in env.keys :
         LET r == handle_key_events(key, input_state, running)
         IN  /\ InSearch(r.input_state) => Len(r.input_state.search) <= MaxSearchLen
             /\ running' = r.running
             /\ input_state' = r.input_state
             /\ ev' = [kind |-> "key", key |-> key]
             /\ origin' = IF InSort(input_state) /\ InSearch(r.input_state)
                          THEN <<input_state>>
                          ELSE IF InSearch(input_state) /\ InSort(r.input_state)
                          THEN <<origin[1], input_state.search>>
                          ELSE IF InSearch(r.input_state) THEN origin
                          ELSE <<>>
             /\ UNCHANGED <<host, now, crashed, appData, log>>

Next == Tick \/ KeyEvent

Spec == Init /\ [][Next]_vars

\* The same program on the machine whose core count changes.
HotplugInit ==
    \E cpuR \in {<<10, 90>>}, procR \in HotplugHost.procs, blkR \in HotplugHost.blk :
        NewApp(HotplugHost, cpuR, procR, blkR)

HotplugSpec == HotplugInit /\ [][Next]_vars

(***************************************************************************)
(* Drawing the process table (main.rs 40, ui.rs 78-81), on its own: the    *)
(* App holds any short process list and any interaction state, and the     *)
(* table is drawn.                                                         *)
(***************************************************************************)
\* Processes whose names differ only in case (sh, Sh), processes that tie on name,
\* CPU and memory (pid 1, pid 3), and one that ties with nothing.
ViewProcs ==
    {Proc(1, <<"s", "h">>, 5, 4096, 0, 64),
     Proc(2, <<"S", "h">>, 95, 1024, 512, 64),
     Proc(3, <<"s", "h">>, 5, 4096, 512, 0),
     Proc(4, <<"i", "n", "i", "t">>, 0, 2048, 7, 7)}

\* What the provider's process table (a map keyed by pid, iterated in no
\* particular order) can give: distinct processes, in any order.
RECURSIVE ProcessTables(_)
ProcessTables(n) ==
    IF n = 0 THEN {<<>>}
    ELSE LET shorter == ProcessTables(n - 1)
         IN  shorter \cup {Append(l, q) : l \in {m \in shorter : Len(m) = n - 1},
                                          q \in ViewProcs}

DistinctPids(l) == \A i, j \in 1..Len(l) : l[i].pid = l[j].pid => i = j

\* The interaction states the table is drawn in: every sort mode, and two searches.
ViewStates ==
    {ProcessesSortSelection(c, d) : c \in Columns, d \in Directions}
      \cup {ProcessesSearch(Some("Cpu"), Some("Descending"), <<"s">>),
            ProcessesSearch(Some("Name"), Some("Ascending"), <<>>)}

\* An App just built on a machine with one core, 2048 MiB and no block device.
FreshApp ==
    /\ now = 0
    /\ crashed = FALSE
    /\ running = TRUE
    /\ cpus = <<50>>
    /\ last_refresh = 0
    /\ disks = <<>>
    /\ cpu_history = <<NewWindow(F64(0))>>
    /\ mem_history = NewWindow(Scaled(0, 0))
    /\ mem_total = find_best(MiB(2048))[1]
    /\ mem_prefix = find_best(MiB(2048))[2]
    /\ log = [cpu |-> <<<<>>>>, mem |-> <<>>, disk |-> <<>>, seen |-> <<>>]
    /\ origin = None

ViewInit ==
    /\ host = "view"
    /\ FreshApp
    /\ \E procR \in {l \in ProcessTables(MaxProcs) : DistinctPids(l)} :
          /\ processes = CollectProcesses(procR, Len(cpus))
          /\ ev = [kind |-> "new", procs |-> procR]
    /\ input_state \in ViewStates

RenderInPlace ==
    /\ running /\ ~crashed
    /\ \E scores \in [MatcherInputs(processes, input_state) -> MatcherAnswers] :
          /\ ev' = [kind |-> "render", scores |-> scores,
                    frame |-> render(ProcessesNew(processes, input_state), scores)]
          /\ processes' = render(ProcessesNew(processes, input_state), scores)
    /\ UNCHANGED <<host, now, crashed, running, input_state, cpu_history, mem_history,
                   mem_total, mem_prefix, disks, cpus, last_refresh, log, origin>>

\* main.rs 40: tui.draw(&mut app), the process table.  `frame` is the rows drawn,
\* `scores` what the matcher answered for each name.
Render ==
    /\ running /\ ~crashed
    /\ \E scores \in [MatcherInputs(processes, input_state) -> MatcherAnswers] :
          ev' = [kind |-> "render", scores |-> scores,
                 frame |-> render(ProcessesNew(processes, input_state), scores)]
    /\ UNCHANGED <<host, now, crashed, running, input_state, appData, log, origin>>

ViewNext == Render

ViewSpec == ViewInit /\ [][ViewNext]_vars

(***************************************************************************)
(* The unit scaler on its own: a byte count is given, best_string scales   *)
(* it (processes.rs 54-56 and the disk table call it for every cell).      *)
(***************************************************************************)
\* Byte counts around every power of 1024 up to 1024^MaxExponent, and zero.
ByteCounts ==
    {Scaled(m, e) : m \in {0, 1, 2, 512, 1000, 1023, 1025, 1536, 2047},
                    e \in 0..MaxExponent}

ScalerInit ==
    /\ host = "scaler"
    /\ FreshApp
    /\ processes = <<>>
    /\ input_state = InputStateDefault
    /\ \E b \in ByteCounts : ev = [kind |-> "bytes", bytes |-> b]

\* MemPrefix::best_string(bytes): find_best, and what convert gives for its prefix
BestString ==
    /\ ev.kind = "bytes"
    /\ ev' = [kind      |-> "best",
              bytes     |-> ev.bytes,
              best      |-> best_string(ev.bytes),
              converted |-> convert(best_string(ev.bytes)[2], ev.bytes)]
    /\ UNCHANGED <<host, now, crashed, running, input_state, appData, log, origin>>

ScalerNext == BestString

ScalerSpec == ScalerInit /\ [][ScalerNext]_vars

(***************************************************************************)
(* ui.rs, ui/chart_wrapper.rs, ui/disks.rs: the charts drawn from the      *)
(* windows.  A chart is a sequence of series, a series a sequence of       *)
(* points <<x, y>>.                                                        *)
(***************************************************************************)
ChartWrapperNewShort(data) ==
    [i \in 1..Len(data) |->
        [x \in 1..(IF Len(data[i]) < HISTORY_LEN - 1 THEN Len(data[i]) ELSE HISTORY_LEN - 1) |->
            <<F64(x - 1), data[i][x]>>]]

\* ChartWrapper::new: each window zipped with 0..HISTORY_LEN
ChartWrapperNew(data) ==
    [i \in 1..Len(data) |->
        [x \in 1..(IF Len(data[i]) < HISTORY_LEN THEN Len(data[i]) ELSE HISTORY_LEN) |->
            <<F64(x - 1), data[i][x]>>]]

\* chart_wrapper.rs 77-90: per series, the value given to the label generator,
\* data.last().unwrap().1; unwrap panics on a series without points
LastValues(chart) ==
    [i \in 1..Len(chart) |->
        IF chart[i] = <<>> THEN "panic" ELSE Last(chart[i])[2]]

\* disks.rs 15-18
to_mb(sectors) == Frac(sectors * 512, 1000000)

\* disks.rs 31-45: per record, in key order, the read series and the write series
RECURSIVE DisksData(_, _)
DisksData(names, table) ==
    IF names = <<>> THEN <<>>
    ELSE LET q == table[Head(names)].history
         IN  <<[x \in 1..Len(q) |-> to_mb(q[x].r_sectors)],
               [x \in 1..Len(q) |-> to_mb(q[x].w_sectors)]>>
               \o DisksData(Tail(names), table)

\* f1.total_cmp(f2) = Less, computed over the least common denominator (the
\* products of FracLess do not fit the checker's integers for megabytes)
LessMb(x, y) ==
    LET l == (x[2] * y[2]) \div GCD(x[2], y[2])
    IN  x[1] * (l \div x[2]) < y[1] * (l \div y[2])

\* disks.rs 47-51: the largest value of all series, 1.0 when there is none
DisksMax(data) ==
    LET values == UNION {Range(data[i]) : i \in 1..Len(data)}
    IN  IF values = {} THEN F64(1)
        ELSE CHOOSE v \in values : \A u \in values : ~LessMb(v, u)

\* Disks::new
DisksNew(table) ==
    LET data == DisksData(SortedNames(DOMAIN table), table)
    IN  [chart |-> ChartWrapperNew(data), range |-> <<F64(0), DisksMax(data)>>]

\* ui.rs 42-76: the three charts of a frame
CpuChart == ChartWrapperNew(cpu_history)

MemChart == ChartWrapperNew(<<mem_history>>)

DiskChart == DisksNew(disks).chart

(***************************************************************************)
(* config/color.rs: SerdeColor, its Serialize and its Deserialize.         *)
(* A Color is <<"Rgb", r, g, b>> or <<"Cyan">>, <<"Reset">>; a Result is   *)
(* <<"Ok", value>> or <<"Err", message>>.                                  *)
(***************************************************************************)
Rgb(r, g, b) == <<"Rgb", r, g, b>>

Ok(x) == <<"Ok", x>>

Err(message) == <<"Err", message>>

\* The digits {:x} writes
HexDigitsLower ==
    <<"0", "1", "2", "3", "4", "5", "6", "7", "8", "9", "a", "b", "c", "d", "e", "f">>

RECURSIVE HexNoPad(_)
HexNoPad(n) ==
    IF n < 16 THEN <<HexDigitsLower[n + 1]>>
    ELSE Append(HexNoPad(n \div 16), HexDigitsLower[(n % 16) + 1])

\* format!("{:02x}", n) for a u8
Hex02(n) == <<HexDigitsLower[(n \div 16) + 1], HexDigitsLower[(n % 16) + 1]>>

\* SerdeColor::serialize
serialize(self) ==
    IF self[1] # "Rgb"
    THEN Err("only rgb colors are serializable")
    ELSE Ok(<<"#">> \o Hex02(self[2]) \o Hex02(self[3]) \o Hex02(self[4]))

\* The ASCII characters of the model; any other character, written by its code
\* point ("U+00E9"), is not ASCII.
AsciiChars == Range(CharOrder) \cup {"#", " "}

\* str::is_ascii
is_ascii(v) == \A i \in 1..Len(v) : v[i] \in AsciiChars

\* u8::is_ascii_hexdigit
is_ascii_hexdigit(c) == c \in Digits \cup {"a", "b", "c", "d", "e", "f"}
                                     \cup {"A", "B", "C", "D", "E", "F"}

\* u8::to_ascii_lowercase
to_ascii_lowercase(c) == IF c \in Range(CharOrder) THEN LowerChar(c) ELSE c

\* u8::from_str_radix(s, 16) on two lower-case hex digits
from_str_radix(s) ==
    LET digit(c) == (CHOOSE i \in 1..Len(HexDigitsLower) : HexDigitsLower[i] = c) - 1
    IN  digit(s[1]) * 16 + digit(s[2])

\* color.rs 65-72: fn color(v: [u8; 2])
color(v) == from_str_radix(<<to_ascii_lowercase(v[1]), to_ascii_lowercase(v[2])>>)

VisitStrAnyLength(v) ==
    IF ~is_ascii(v)
    THEN Err("a hex color has to only contain ascii characters")
    ELSE IF Len(v) < 7
    THEN Err("a hex color has to be 7 characters long")
    ELSE IF v[1] # "#"
    THEN Err("a hex color has to start with '#'")
    ELSE IF ~(\A i \in 2..7 : is_ascii_hexdigit(v[i]))
    THEN Err("the value part of a hex color has to only contain hexadecimal digits")
    ELSE Ok(Rgb(color(<<v[2], v[3]>>), color(<<v[4], v[5]>>), color(<<v[6], v[7]>>)))

\* RgbColorVisitor::visit_str (the length of an ASCII string in bytes is its
\* length in characters)
visit_str(v) ==
    IF ~is_ascii(v)
    THEN Err("a hex color has to only contain ascii characters")
    ELSE IF Len(v) # 7
    THEN Err("a hex color has to be 7 characters long")
    ELSE IF v[1] # "#"
    THEN Err("a hex color has to start with '#'")
    ELSE IF ~(\A i \in 2..Len(v) : is_ascii_hexdigit(v[i]))
    THEN Err("the value part of a hex color has to only contain hexadecimal digits")
    ELSE Ok(Rgb(color(<<v[2], v[3]>>), color(<<v[4], v[5]>>), color(<<v[6], v[7]>>)))

\* SerdeColor::deserialize, for a string value
deserialize(v) == visit_str(v)

\* The colors serialized: RGB colors with components at and around the one-digit
\* and two-digit boundaries, and two colors that are not RGB.
Components == {0, 9, 12, 16, 144, 170, 240, 255}

Colors ==
    {Rgb(r, g, b) : r \in Components, g \in Components, b \in Components}
      \cup {<<"Cyan">>, <<"Reset">>}

\* The strings deserialized: a first character and three pairs of characters, in
\* both cases and with characters that are no hex digits; strings too short and too
\* long; a string with a character that is not ASCII.
Pairs ==
    {<<"a", "a">>, <<"A", "A">>, <<"b", "b">>, <<"B", "B">>, <<"c", "c">>,
     <<"C", "C">>, <<"0", "9">>, <<"F", "e">>, <<"g", "0">>, <<"0", " ">>}

Texts ==
    {h \o p \o q \o r : h \in {<<"#">>, <<"a">>}, p \in Pairs, q \in Pairs, r \in Pairs}
      \cup {<<>>,
            <<"#">>,
            <<"#", "a", "a", "b", "b", "c">>,
            <<"a", "a", "b", "b", "c", "c">>,
            <<"#", "a", "a", "b", "b", "c", "c", "d">>,
            <<"#", "#", "a", "a", "b", "b", "c", "c">>,
            <<"#", "a", "a", "b", "b", "c", "U+00E9">>}

ColorInit ==
    /\ host = "color"
    /\ FreshApp
    /\ processes = <<>>
    /\ input_state = InputStateDefault
    /\ \/ \E c \in Colors :
             ev = [kind |-> "color", color |-> c, text |-> <<>>, result |-> <<>>]
       \/ \E t \in Texts :
             ev = [kind |-> "text", color |-> <<>>, text |-> t, result |-> <<>>]

\* toml::to_string of a value holding the color
Serialize ==
    /\ ev.kind = "color"
    /\ ev' = [kind   |-> "serialized",
              color  |-> ev.color,
              text   |-> IF serialize(ev.color)[1] = "Ok"
                         THEN serialize(ev.color)[2] ELSE <<>>,
              result |-> serialize(ev.color)]
    /\ UNCHANGED <<host, now, crashed, running, input_state, appData, log, origin>>

\* toml::from_str of a document holding the string
Deserialize ==
    /\ \/ ev.kind = "text"
       \/ ev.kind = "serialized" /\ ev.result[1] = "Ok"
    /\ ev' = [kind   |-> "deserialized",
              color  |-> ev.color,
              text   |-> ev.text,
              result |-> deserialize(ev.text)]
    /\ UNCHANGED <<host, now, crashed, running, input_state, appData, log, origin>>

ColorNext == Serialize \/ Deserialize

ColorSpec == ColorInit /\ [][ColorNext]_vars

(***************************************************************************)
(* config.rs: config_path and the head of Config::load.  A path is a       *)
(* string; the file system is the set of paths that exist.  An Option is   *)
(* <<>> or <<value>>; a call that panics gives <<"panic">>.                *)
(***************************************************************************)
CliDir == "/etc/jwtop"

EnvDir == "/opt/jwtop"

\* ProjectDirs::from("org", "jw", "jwtop").config_dir() on a machine with a home
DefaultDir == "/home/jw/.config/jwtop"

Dirs == {CliDir, EnvDir, DefaultDir}

\* std::env::var("JWTOP_CONFIG_DIR"): Ok(value), Err(NotPresent), or
\* Err(NotUnicode(bytes)) for a value that is no valid Unicode; the bytes name the
\* directory "/opt/jwtop" all the same
EnvVars ==
    {<<"Ok", d>> : d \in Dirs \cup {""}}
      \cup {<<"Err", "NotPresent">>, <<"Err", "NotUnicode">>}

\* ProjectDirs::from: None when no home directory can be found
ProjectDirsFrom == {<<>>, <<DefaultDir>>}

\* Path::exists
exists(path, fs) == path \in fs

\* config_path(cli), with the answers of env::var and of ProjectDirs::from, and
\* the file system
config_path(cli, var, dirs, fs) ==
    IF cli # <<>>
    THEN IF exists(cli[1], fs) THEN Ok(<<cli[1]>>)
         ELSE Err("The config path passed in the cli option does not exist")
    ELSE IF var[1] = "Ok"
    THEN IF exists(var[2], fs) THEN Ok(<<var[2]>>)
         ELSE Err("The config path passed in the environment variable does not exist")
    ELSE IF dirs = <<>> THEN <<"panic">>
    ELSE IF exists(dirs[1], fs) THEN Ok(<<dirs[1]>>)
    ELSE Ok(<<>>)

\* Config::load: the configurations it can return.  With a config.toml in the
\* directory the result depends on the file's content (config.rs 45-70), which
\* is not modelled: the file is read and gives a Config or an error.
ConfigLoad(cli, var, dirs, fs, has_file) ==
    LET dir == config_path(cli, var, dirs, fs)
    IN  IF dir[1] # "Ok" THEN {dir}
        ELSE IF dir[2] = <<>> THEN {Ok("Default")}
        ELSE IF ~has_file THEN {Ok("Default")}
        ELSE {Ok(<<"FromFile", dir[2][1]>>), Err("Failed to read or parse config")}

ConfigInit ==
    /\ host = "config"
    /\ FreshApp
    /\ processes = <<>>
    /\ input_state = InputStateDefault
    /\ \E cli \in {<<>>} \cup {<<d>> : d \in Dirs}, var \in EnvVars,
          dirs \in ProjectDirsFrom, fs \in SUBSET Dirs, has_file \in BOOLEAN :
          ev = [kind |-> "cli", cli |-> cli, var |-> var, dirs |-> dirs, fs |-> fs,
                has_file |-> has_file, result |-> <<>>]

\* A call of config_path
ConfigPath ==
    /\ ev.kind = "cli"
    /\ ev' = [ev EXCEPT !.kind = "config_path",
                        !.result = config_path(ev.cli, ev.var, ev.dirs, ev.fs)]
    /\ UNCHANGED <<host, now, crashed, running, input_state, appData, log, origin>>

\* A call of Config::load
Load ==
    /\ ev.kind = "cli"
    /\ \E r \in ConfigLoad(ev.cli, ev.var, ev.dirs, ev.fs, ev.has_file) :
          ev' = [ev EXCEPT !.kind = "load", !.result = r]
    /\ UNCHANGED <<host, now, crashed, running, input_state, appData, log, origin>>

ConfigNext == ConfigPath \/ Load

ConfigSpec == ConfigInit /\ [][ConfigNext]_vars

(***************************************************************************)
(* Properties.                                                             *)
(***************************************************************************)
\* A step of Tick / of KeyEvent.
TickStep == Len(log'.mem) = Len(log.mem) + 1

KeyStep == Len(log'.mem) = Len(log.mem) /\ ev'.kind = "key"

\* What a window holds once `pushed` has been pushed into HISTORY_LEN zeros.
FifoContent(pushed, zero) == LastN(Repeat(zero, HISTORY_LEN) \o pushed, HISTORY_LEN)

\* C1: while the App lives (after App::new, after every tick() that returned and
\* every key event), each per-core CPU window, the memory window and the delta
\* window of every disk record has length exactly HISTORY_LEN.
C1_FixedLength ==
    ~crashed =>
        /\ \A i \in 1..Len(cpu_history) : Len(cpu_history[i]) = HISTORY_LEN
        /\ Len(mem_history) = HISTORY_LEN
        /\ \A n \in DOMAIN disks : Len(disks[n].history) = HISTORY_LEN

\* The last tick created the record of hda (its first delta is its full counters),
\* after the other windows have wrapped.
C1_Witness ==
    /\ ~crashed
    /\ Ticks = MaxTicks
    /\ Hda \in DOMAIN disks
    /\ log.disk[Hda] = <<[r_sectors |-> 9, w_sectors |-> 4]>>
    /\ Len(disks[Hda].history) = HISTORY_LEN
    /\ Len(log.disk[Nvme0n1]) >= HISTORY_LEN

\* C2: strict FIFO.  A window into which v1..vK have been pushed holds the last
\* HISTORY_LEN elements of HISTORY_LEN zeros followed by v1..vK: all zeros when
\* K = 0, zeros then v1..vK when K <= HISTORY_LEN, the last HISTORY_LEN pushed
\* values when K > HISTORY_LEN.
C2_Fifo ==
    ~crashed =>
        /\ \A i \in 1..Len(cpu_history) :
               cpu_history[i] = FifoContent(log.cpu[i], F64(0))
        /\ mem_history = FifoContent(log.mem, Scaled(0, 0))
        /\ \A n \in DOMAIN disks :
               disks[n].history = FifoContent(log.disk[n], DiskInfoDefault)

\* More than HISTORY_LEN memory samples were pushed, not all equal, and a CPU
\* window is still partly zeros.
C2_Witness ==
    /\ ~crashed
    /\ Len(log.mem) > HISTORY_LEN
    /\ mem_history[1] # mem_history[HISTORY_LEN]
    /\ mem_history[1] # Scaled(0, 0)

\* A CPU window after K <= HISTORY_LEN pushes: zeros, then the pushed values.
C2_WitnessPartial ==
    /\ Len(log.cpu[1]) = 2
    /\ log.cpu[1][1] # log.cpu[1][2]
    /\ cpu_history[1][1] = F64(0)

\* The devices of a provider answer that pass the name filter, and their readings.
Reported(blk) == IF blk.ok THEN {n \in DOMAIN blk.stats : is_disk(n)} ELSE {}

Reading(blk, n) ==
    [r_sectors |-> blk.stats[n].read_sectors, w_sectors |-> blk.stats[n].write_sectors]

\* The cumulative pair stored for a device before a tick (0, 0 when it has no record).
Previous(n) == IF n \in DOMAIN disks THEN disks[n].prev ELSE DiskInfoDefault

Max0(x) == IF x < 0 THEN 0 ELSE x

ClampedDelta(a, b) ==
    [r_sectors |-> Max0(b.r_sectors - a.r_sectors),
     w_sectors |-> Max0(b.w_sectors - a.w_sectors)]

NonDecreasing(a, b) == a.r_sectors <= b.r_sectors /\ a.w_sectors <= b.w_sectors

\* The window after exactly one push of `sample`.
PushedOnce(before, after, sample) ==
    /\ Len(after) = Len(before)
    /\ \A i \in 1..(Len(before) - 1) : after[i] = before[i + 1]
    /\ after[Len(after)] = sample

\* C3: for every device reported in a tick, the tick does not abort and the delta
\* pushed is max(0, current - previous) for read and for write, so a counter that
\* went back pushes 0.
C3_ClampedDelta ==
    [][TickStep =>
          /\ ~crashed'
          /\ \A n \in Reported(ev'.blk) :
                Last(disks'[n].history) = ClampedDelta(Previous(n), Reading(ev'.blk, n))
      ]_vars

\* C4: in a tick in which no reported counter went back, each reported device gets
\* exactly one entry (current_read - prev_read, current_write - prev_write) pushed
\* into its window and the current pair stored as its previous value.  Without
\* overflow checks the same holds device by device.
C4_DeltaPushed ==
    [][TickStep =>
          \A n \in Reported(ev'.blk) :
              (/\ NonDecreasing(Previous(n), Reading(ev'.blk, n))
               /\ env.overflow_checks =>
                      \A m \in Reported(ev'.blk) :
                          NonDecreasing(Previous(m), Reading(ev'.blk, m)))
              => /\ ~crashed'
                 /\ PushedOnce(IF n \in DOMAIN disks THEN disks[n].history
                               ELSE Repeat(DiskInfoDefault, HISTORY_LEN),
                               disks'[n].history,
                               [r_sectors |-> Reading(ev'.blk, n).r_sectors
                                              - Previous(n).r_sectors,
                                w_sectors |-> Reading(ev'.blk, n).w_sectors
                                              - Previous(n).w_sectors])
                 /\ disks'[n].prev = Reading(ev'.blk, n)
      ]_vars

\* nvme0n1 went from (100, 50) to (150, 80): the delta (50, 30) was pushed.
C4_Witness ==
    /\ ev.kind = "tick"
    /\ Nvme0n1 \in Reported(ev.blk)
    /\ disks[Nvme0n1].prev = [r_sectors |-> 150, w_sectors |-> 80]
    /\ Last(disks[Nvme0n1].history) = [r_sectors |-> 50, w_sectors |-> 30]
    /\ disks[Nvme0n1].history[HISTORY_LEN - 1] = [r_sectors |-> 100, w_sectors |-> 50]

\* C5: the CPU refresh floor.  In a tick where the time since last_refresh is below
\* the minimum CPU update interval no per-core window and not last_refresh change;
\* otherwise every per-core window receives exactly one sample, the usage of its
\* core, and last_refresh becomes the current time.  Either way the memory window
\* receives exactly one sample, the process list is replaced by the processes of
\* this tick and the reported disks are processed.
C5_CpuFloor ==
    [][TickStep =>
          /\ IF now' - last_refresh < MINIMUM_CPU_UPDATE_INTERVAL
             THEN cpu_history' = cpu_history /\ last_refresh' = last_refresh
             ELSE /\ \A i \in 1..Len(cpu_history) :
                        PushedOnce(cpu_history[i], cpu_history'[i], F64(ev'.cpu[i]))
                  /\ Len(cpu_history') = Len(cpu_history)
                  /\ last_refresh' = now'
          /\ PushedOnce(mem_history, mem_history', Last(log'.mem))
          /\ Len(processes') = Len(ev'.procs)
          /\ \A i \in 1..Len(ev'.procs) : processes'[i].pid = ev'.procs[i].pid
          /\ ~crashed' => \A n \in Reported(ev'.blk) : disks'[n].prev = Reading(ev'.blk, n)
      ]_vars

\* A tick that came 100 ms after the last CPU refresh: the CPU windows have one
\* sample fewer than the memory window, and the process list is this tick's.
C5_Witness ==
    /\ ev.kind = "tick"
    /\ now - last_refresh = 100
    /\ Len(log.cpu[1]) = 1
    /\ Len(log.mem) = 3
    /\ cpu_history[2][HISTORY_LEN] # F64(0)

\* C6: when the provider fails to enumerate block devices, the tick completes, the
\* disk table is left exactly as it was (no record created, removed or pushed to,
\* no previous value changed), memory and processes are still refreshed; App::new
\* with a failing provider starts with an empty table; and a later tick processes
\* whatever the provider then returns.
C6_ProviderFailure ==
    /\ (ev.kind = "new" /\ ~ev.blk.ok => disks = <<>>)
    /\ [][TickStep =>
            /\ ~ev'.blk.ok =>
                  /\ ~crashed'
                  /\ disks' = disks
                  /\ PushedOnce(mem_history, mem_history', Last(log'.mem))
                  /\ Len(processes') = Len(ev'.procs)
                  /\ \A i \in 1..Len(ev'.procs) : processes'[i].pid = ev'.procs[i].pid
            /\ (ev.kind \in {"new", "tick"} /\ ~ev.blk.ok /\ ~crashed') =>
                  \A n \in Reported(ev'.blk) : disks'[n].prev = Reading(ev'.blk, n)
       ]_vars

\* The provider failed in a tick after two devices had records with deltas.
C6_Witness ==
    /\ ev.kind = "tick"
    /\ ~ev.blk.ok
    /\ ~crashed
    /\ DOMAIN disks = {Hda, Nvme0n1}
    /\ log.disk[Nvme0n1] # <<>>
    /\ Len(log.mem) > Len(log.disk[Nvme0n1])

\* The commands of the interaction state machine, as the keys that issue them.
\* select-column(C): the key bound to C in the sort-selection arm (not Ctrl-C).
SelectsColumn(key, C) ==
    /\ key.code.t = "Char"
    /\ ~(key.code.c \in {"c", "C"} /\ key.modifiers = {"CONTROL"})
    /\ \/ C = "Cpu" /\ key.code.c \in {"c", "C"}
       \/ C = "Pid" /\ key.code.c \in {"p", "P"}
       \/ C = "Name" /\ key.code.c \in {"n", "N"}
       \/ C = "Memory" /\ key.code.c \in {"m", "M"}
       \/ C = "DiskRead" /\ key.code.c \in {"r", "R"}
       \/ C = "DiskWrite" /\ key.code.c \in {"w", "W"}

IsEnterSearch(key) == key.code.t = "Char" /\ key.code.c = "/"

IsQuit(key) ==
    key.code.t = "Char" /\ key.code.c \in {"c", "C"} /\ key.modifiers = {"CONTROL"}

IsCancel(key) == key.code.t = "Esc"

DefaultDirection(C) ==
    CASE C \in {"Pid", "Name"} -> "Ascending"
      [] C \in {"Cpu", "Memory", "DiskRead", "DiskWrite"} -> "Descending"

Flipped(d) == CASE d = "Ascending" -> "Descending" [] d = "Descending" -> "Ascending"

\* C7: in SortSelect{column, direction}, select-column(C) yields
\* SortSelect{column, reversed(direction)} when C is the active column and
\* SortSelect{C, default direction of C} otherwise (Ascending for Pid and Name,
\* Descending for Cpu, Memory, DiskRead, DiskWrite); running is unchanged.
C7_SelectColumn ==
    [][KeyStep /\ InSort(input_state) =>
          \A C \in Columns :
              SelectsColumn(ev'.key, C) =>
                  /\ input_state' =
                        [tag |-> "ProcessesSortSelection",
                         column |-> C,
                         direction |-> IF C = input_state.column
                                       THEN Flipped(input_state.direction)
                                       ELSE DefaultDirection(C)]
                  /\ running' = running
      ]_vars

\* Pid was selected twice in a row: Pid, Descending is not Pid's default.
C7_Witness ==
    /\ ev.kind = "key"
    /\ SelectsColumn(ev.key, "Pid")
    /\ input_state = ProcessesSortSelection("Pid", "Descending")

\* From the initial SortSelect{Cpu, Descending}, Cpu was selected: Cpu, Ascending.
C7_WitnessCpu ==
    /\ ev.kind = "key"
    /\ SelectsColumn(ev.key, "Cpu")
    /\ input_state = ProcessesSortSelection("Cpu", "Ascending")

\* C8: search round-trip.  While searching, the saved column and direction are
\* those of the sort mode search was entered from, whatever was typed, erased or
\* cleared; and leaving search (cancel) yields exactly that sort mode.
C8_SearchRoundTrip ==
    /\ InSearch(input_state) =>
          /\ Len(origin) = 1
          /\ input_state.old_column = <<origin[1].column>>
          /\ input_state.old_direction = <<origin[1].direction>>
    /\ Len(origin) = 2 => input_state = origin[1]
    /\ (ev.kind = "key" /\ IsCancel(ev.key)) => InSort(input_state)

\* Search was entered from SortSelect{Name, Ascending}, "nm" was typed, and cancel
\* gave SortSelect{Name, Ascending} back.
C8_Witness ==
    /\ ev.kind = "key"
    /\ IsCancel(ev.key)
    /\ origin = <<ProcessesSortSelection("Name", "Ascending"), <<"n", "m">>>>
    /\ input_state = ProcessesSortSelection("Name", "Ascending")

\* C9: quit (Ctrl-C) is accepted in both modes, with any search text: it sets
\* running to false and leaves the interaction state as it was.
C9_Quit ==
    [][KeyStep /\ IsQuit(ev'.key) => running' = FALSE /\ input_state' = input_state]_vars

\* Quit while searching, with text typed.
C9_Witness ==
    /\ ev.kind = "key"
    /\ IsQuit(ev.key)
    /\ ~running
    /\ InSearch(input_state)
    /\ input_state.search # <<>>

\* Quit in sort mode.
C9_WitnessSort ==
    /\ ev.kind = "key"
    /\ IsQuit(ev.key)
    /\ ~running
    /\ input_state = ProcessesSortSelection("Memory", "Ascending")

\* C10 as stated: in Search, a select-column or enter-search command leaves the
\* whole interaction state unchanged.
C10_SortCommandIgnored ==
    [][(/\ KeyStep
        /\ InSearch(input_state)
        /\ \/ IsEnterSearch(ev'.key)
           \/ \E C \in Columns : SelectsColumn(ev'.key, C))
       => input_state' = input_state
      ]_vars

\* C10 as the code has it: in Search, the keys of select-column and enter-search
\* never change the mode, the saved column, the saved direction or running, and
\* raise no error (change_processes_sort_into is the identity on a Search state);
\* they edit the text: w or W with CONTROL held clears it, any other of them
\* pressed or repeated is appended, a release changes nothing.
C10_SortKeysAreText ==
    [][(/\ KeyStep
        /\ InSearch(input_state)
        /\ \/ IsEnterSearch(ev'.key)
           \/ \E C \in Columns : SelectsColumn(ev'.key, C))
       => /\ InSearch(input_state')
          /\ input_state'.old_column = input_state.old_column
          /\ input_state'.old_direction = input_state.old_direction
          /\ running' = running
          /\ ~crashed'
          /\ \A C \in Columns :
                change_processes_sort_into(input_state, C) = input_state
          /\ input_state'.search =
                IF ev'.key.code.c \in {"w", "W"} /\ "CONTROL" \in ev'.key.modifiers
                THEN <<>>
                ELSE IF ev'.key.kind \in {"Press", "Repeat"}
                THEN input_state.search \o <<ev'.key.code.c>>
                ELSE input_state.search
      ]_vars

\* p was pressed while searching (entered from Pid, Descending): the text is "/p".
C10_Witness ==
    /\ ev.kind = "key"
    /\ SelectsColumn(ev.key, "Pid")
    /\ InSearch(input_state)
    /\ input_state.search = <<"/", "p">>
    /\ input_state.old_column = <<"Pid">>
    /\ input_state.old_direction = <<"Descending">>

\* The text commands of Search mode, as the keys that issue them.  append-character:
\* a character pressed or repeated that is neither quit nor clear-line;
\* erase-last-character: Backspace pressed or repeated; clear-line: w or W with
\* CONTROL held (what Ctrl+Backspace sends).
IsClearLine(key) ==
    key.code.t = "Char" /\ key.code.c \in {"w", "W"} /\ "CONTROL" \in key.modifiers

IsAppend(key) ==
    /\ key.code.t = "Char"
    /\ key.kind \in {"Press", "Repeat"}
    /\ ~IsQuit(key)
    /\ ~IsClearLine(key)

IsErase(key) == key.code.t = "Backspace" /\ key.kind \in {"Press", "Repeat"}

\* A character bound to nothing in SortSelect: no sort column, not search, not quit.
Unbound(key) ==
    /\ key.code.c \notin {"/", "q"}
    /\ \A C \in Columns : ~SelectsColumn(key, C)

AllButLast(s) == [i \in 1..(Len(s) - 1) |-> s[i]]

\* C11: in SortSelect{column, direction}, append-character of an unbound character,
\* erase-last-character, clear-line and cancel each leave column, direction and
\* running unchanged.
C11_SearchCommandIgnored ==
    [][(/\ KeyStep
        /\ InSort(input_state)
        /\ \/ IsAppend(ev'.key) /\ Unbound(ev'.key)
           \/ IsErase(ev'.key)
           \/ IsClearLine(ev'.key)
           \/ IsCancel(ev'.key))
       => /\ input_state' = input_state
          /\ running' = running
      ]_vars

\* C12: in Search mode append-character c makes the text the text followed by c,
\* erase-last-character removes the last character of a non-empty text and leaves
\* an empty text empty, clear-line makes the text empty; none of them changes the
\* saved column, the saved direction, the mode or running.
C12_TextEditing ==
    [][(/\ KeyStep
        /\ InSearch(input_state)
        /\ IsAppend(ev'.key) \/ IsErase(ev'.key) \/ IsClearLine(ev'.key))
       => /\ InSearch(input_state')
          /\ input_state'.old_column = input_state.old_column
          /\ input_state'.old_direction = input_state.old_direction
          /\ running' = running
          /\ input_state'.search =
                IF IsClearLine(ev'.key) THEN <<>>
                ELSE IF IsAppend(ev'.key) THEN input_state.search \o <<ev'.key.code.c>>
                ELSE IF input_state.search = <<>> THEN <<>>
                ELSE AllButLast(input_state.search)
      ]_vars

\* Two characters were typed and the last one was erased: the text is the first.
C12_Witness ==
    /\ ev.kind = "key"
    /\ IsErase(ev.key)
    /\ InSearch(input_state)
    /\ input_state.search = <<"a">>
    /\ input_state.old_column = <<"DiskWrite">>

\* One transition of the interaction state machine, or none.
OneTransition(s, t) ==
    \/ t = s
    \/ InSort(s) /\ InSort(t)
    \/ /\ InSort(s) /\ InSearch(t)
       /\ t.search = <<>>
       /\ t.old_column = <<s.column>> /\ t.old_direction = <<s.direction>>
    \/ /\ InSearch(s) /\ InSort(t)
       /\ <<t.column>> = s.old_column /\ <<t.direction>> = s.old_direction
    \/ /\ InSearch(s) /\ InSearch(t)
       /\ t.old_column = s.old_column /\ t.old_direction = s.old_direction
       /\ \/ t.search = <<>>
          \/ Len(t.search) = Len(s.search) + 1 /\ AllButLast(t.search) = s.search
          \/ s.search # <<>> /\ t.search = AllButLast(s.search)

\* C13: a Tick changes neither the interaction state nor running and runs exactly
\* one sampling cycle (one memory sample, at most one sample per core and per
\* device); a key event changes no history window, no disk record, not the process
\* list, not last_refresh, not the memory scale, and performs at most one
\* transition of the interaction state.
C13_Ownership ==
    [][/\ ev'.kind = "tick" =>
            /\ input_state' = input_state
            /\ running' = running
            /\ Len(log'.mem) = Len(log.mem) + 1
            /\ \A i \in 1..Len(log.cpu) : Len(log'.cpu[i]) - Len(log.cpu[i]) \in {0, 1}
            /\ \A n \in DOMAIN log'.disk :
                   Len(log'.disk[n])
                     - (IF n \in DOMAIN log.disk THEN Len(log.disk[n]) ELSE 0) \in {0, 1}
       /\ ev'.kind = "key" =>
            /\ cpu_history' = cpu_history
            /\ mem_history' = mem_history
            /\ disks' = disks
            /\ processes' = processes
            /\ last_refresh' = last_refresh
            /\ mem_prefix' = mem_prefix
            /\ mem_total' = mem_total
            /\ log' = log
            /\ OneTransition(input_state, input_state')
      ]_vars

\* Ticks ran to the end of the session while the user was searching: the search
\* entered before them is still there, and the windows hold the ticks' samples.
C13_Witness ==
    /\ ev.kind = "tick"
    /\ Ticks = MaxTicks
    /\ input_state = ProcessesSearch(<<"Cpu">>, <<"Descending">>, <<"/">>)
    /\ running
    /\ Len(processes) = 2

\* The table has just been drawn: the rows, and the list they were made from.
Drawn == ev.kind = "render"

Pids(l) == [i \in 1..Len(l) |-> l[i].pid]

\* `shown` holds exactly the processes of `list` (pids are unique in a list).
IsPermutation(shown, list) ==
    /\ Len(shown) = Len(list)
    /\ \A i \in 1..Len(list) : \E j \in 1..Len(shown) : shown[j] = list[i]

\* Where a process stands in the snapshot list.
PositionIn(list, q) == CHOOSE i \in 1..Len(list) : list[i] = q

\* C14: in SortSelect{column, direction} the rows are a permutation of the snapshot
\* list, non-decreasing under the column's comparator when the direction is
\* Ascending and non-increasing when it is Descending; [pid 1 cpu 5.0, pid 2 cpu
\* 95.0] under Cpu, Descending is shown as [pid 2, pid 1].
C14_SortedDisplay ==
    (Drawn /\ InSort(input_state)) =>
        /\ IsPermutation(ev.frame, processes)
        /\ \A i \in 1..(Len(ev.frame) - 1) :
               LET o == compare_by(input_state.column, ev.frame[i], ev.frame[i + 1])
               IN  IF input_state.direction = "Ascending"
                   THEN o \in {"Less", "Equal"}
                   ELSE o \in {"Greater", "Equal"}
        /\ (/\ input_state = ProcessesSortSelection("Cpu", "Descending")
            /\ Pids(processes) = <<1, 2>>) => Pids(ev.frame) = <<2, 1>>

\* C15: every column's comparator is a total order on processes: compare_by(p1, p2)
\* is the reverse of compare_by(p2, p1), compare_by(p, p) is Equal, the comparison
\* is transitive; and under Name two names that differ only in letter case compare
\* Equal in both argument orders.
C15_TotalOrder ==
    \A column \in Columns : \A i, j, k \in 1..Len(processes) :
        LET p1 == processes[i]
            p2 == processes[j]
            p3 == processes[k]
        IN  /\ compare_by(column, p1, p2) = reverse(compare_by(column, p2, p1))
            /\ compare_by(column, p1, p1) = "Equal"
            /\ (/\ compare_by(column, p1, p2) \in {"Less", "Equal"}
                /\ compare_by(column, p2, p3) \in {"Less", "Equal"})
               => compare_by(column, p1, p3) \in {"Less", "Equal"}
            /\ (column = "Name" /\ to_lowercase(p1.name) = to_lowercase(p2.name))
               => compare_by(column, p1, p2) = "Equal"

\* C16: sorting is idempotent: the rows drawn in SortSelect{column, direction},
\* ordered again with the same column and direction, are the identical sequence.
C16_Idempotent ==
    (Drawn /\ InSort(input_state)) =>
        render(ProcessesNew(ev.frame, input_state), ev.scores) = ev.frame

\* Under Cpu, Descending the list [pid 3, pid 2, pid 1] was reordered to
\* [pid 2, pid 3, pid 1]: pid 3 and pid 1 tie and keep their order.
C16_Witness ==
    /\ Drawn
    /\ input_state = ProcessesSortSelection("Cpu", "Descending")
    /\ Pids(processes) = <<3, 2, 1>>
    /\ Pids(ev.frame) = <<2, 3, 1>>

\* C17: in Search mode the rows are a permutation of the snapshot list; every
\* process whose name matches precedes every process whose name does not; matching
\* processes are in non-increasing order of score; processes of equal score, and
\* the non-matching ones, keep their relative order from the snapshot list.
C17_SearchOrder ==
    (Drawn /\ InSearch(input_state)) =>
        /\ IsPermutation(ev.frame, processes)
        /\ \A i, j \in 1..Len(ev.frame) :
               i < j =>
                 LET a == ev.scores[ev.frame[i].name]
                     b == ev.scores[ev.frame[j].name]
                 IN  /\ b # None => a # None
                     /\ (a # None /\ b # None) => a[1] >= b[1]
                     /\ a = b => PositionIn(processes, ev.frame[i])
                                   < PositionIn(processes, ev.frame[j])

\* init does not match, sh matches: [pid 4, pid 3, pid 1] is shown as
\* [pid 3, pid 1, pid 4].
C17_Witness ==
    /\ Drawn
    /\ InSearch(input_state)
    /\ Pids(processes) = <<4, 3, 1>>
    /\ ev.scores[<<"i", "n", "i", "t">>] = None
    /\ ev.scores[<<"s", "h">>] = Some(7)
    /\ Pids(ev.frame) = <<3, 1, 4>>

\* Matches of different scores and a non-match: [pid 4, pid 1, pid 2] with
\* init -3, sh no match, Sh 7 is shown as [pid 2, pid 4, pid 1].
C17_WitnessScores ==
    /\ Drawn
    /\ InSearch(input_state)
    /\ Pids(processes) = <<4, 1, 2>>
    /\ ev.scores[<<"i", "n", "i", "t">>] = Some(-3)
    /\ ev.scores[<<"s", "h">>] = None
    /\ ev.scores[<<"S", "h">>] = Some(7)
    /\ Pids(ev.frame) = <<2, 4, 1>>

\* C18: drawing the process table, in either mode, leaves App.processes (content
\* and order) and App.input_state as they were, and the rest of the App with them.
C18_RenderPure ==
    [][ev'.kind = "render" =>
          /\ processes' = processes
          /\ input_state' = input_state
          /\ running' = running
          /\ appData' = appData
      ]_vars

\* The rows drawn are in another order than the list, in a search.
C18_Witness ==
    /\ Drawn
    /\ InSearch(input_state)
    /\ Len(processes) = MaxProcs
    /\ ev.frame # processes

\* The same in a sort mode.
C18_WitnessSort ==
    /\ Drawn
    /\ input_state = ProcessesSortSelection("Pid", "Descending")
    /\ Pids(processes) = <<1, 2>>
    /\ Pids(ev.frame) = <<2, 1>>

\* The index of a prefix: the power of 1024 it stands for.
PrefixExponent(p) ==
    CASE p = "Byte" -> 0 [] p = "Kilo" -> 1 [] p = "Mega" -> 2
      [] p = "Giga" -> 3 [] p = "Tera" -> 4 [] p = "Peta" -> 5

\* C19: the memory scale is the one App::new chose from total physical memory, in
\* every state: no tick and no key event changes it; and every memory sample a tick
\* pushes is used_bytes / 1024^(index of that prefix).  With 2048 MiB in total the
\* prefix is Giga, and 512 MiB used pushes 0.5.
C19_MemScaleFixed ==
    /\ [](/\ mem_prefix = find_best(env.total)[2]
          /\ env.total = MiB(2048) => mem_prefix = "Giga")
    /\ [][/\ mem_prefix' = mem_prefix
          /\ ev'.kind = "tick" =>
                Last(mem_history') =
                    Scaled(ev'.mem[1], ev'.mem[2] - PrefixExponent(mem_prefix))
      ]_vars

\* 2048 MiB in total, 512 MiB used in the last of several ticks: the sample is
\* 512 / 1024 = 0.5, on the Giga scale.
C19_Witness ==
    /\ ev.kind = "tick"
    /\ Ticks > 1
    /\ env.total = MiB(2048)
    /\ mem_prefix = "Giga"
    /\ ev.mem = MiB(512)
    /\ Last(mem_history)[1] * 2 = Pow(MULTIPLIER, -Last(mem_history)[2])
    /\ mem_history[HISTORY_LEN - 1] # Last(mem_history)

\* m * 1024^e < 1024, for 0 <= m < 2^31
Below1024(m, e) == m = 0 \/ (e <= 0 /\ (e <= -3 \/ m < Pow(1024, 1 - e)))

\* C20: for every non-negative byte count b, find_best(b) is (v, p) where p is the
\* smallest of Byte .. Peta with b / 1024^index(p) < 1024, or Peta when there is
\* none, and v = b / 1024^index(p), which is what convert(p, b) gives; scaling
\* leaves the App as it is.
C20_UnitScaler ==
    /\ [](ev.kind = "best" =>
            LET b == ev.bytes
                v == ev.best[1]
                p == ev.best[2]
                k == PrefixExponent(p)
                Fits(i) == Below1024(b[1], b[2] - i)
            IN  /\ (\E i \in 0..5 : Fits(i)) =>
                       Fits(k) /\ \A i \in 0..(k - 1) : ~Fits(i)
                /\ (\A i \in 0..5 : ~Fits(i)) => p = "Peta"
                /\ v = Scaled(b[1], b[2] - k)
                /\ v = ev.converted)
    /\ [][ev'.kind = "best" =>
            /\ appData' = appData
            /\ input_state' = input_state
            /\ running' = running
      ]_vars

\* 1024^7 bytes: no prefix brings it below 1024; it is scaled to 1024^2 Peta.
C20_Witness ==
    /\ ev.kind = "best"
    /\ ev.bytes = <<1, MaxExponent>>
    /\ ev.best = <<<<1, MaxExponent - 5>>, "Peta">>

\* 1024 bytes exactly is 1 Kilo, 1023 bytes is 1023 Byte.
C20_WitnessKilo ==
    /\ ev.kind = "best"
    /\ ev.bytes = <<1, 1>>
    /\ ev.best = <<<<1, 0>>, "Kilo">>

\* C21: the number of per-core CPU windows is the core count the provider reported
\* to App::new, after any sequence of ticks and key events, also when a later
\* refresh reports fewer or more cores.
C21_CoreCountFixed ==
    /\ ev.kind = "new" => Len(cpu_history) = Len(ev.cpu)
    /\ Len(cpu_history) = Len(log.cpu)
    /\ \A i \in 1..Len(cpu_history) : Len(cpu_history[i]) = HISTORY_LEN

\* Two cores at startup; a refresh reported one core, the last one three: there
\* are two windows, the second holds one sample fewer than the first.
C21_Witness ==
    /\ ev.kind = "tick"
    /\ Len(cpus) = 3
    /\ Len(cpu_history) = 2
    /\ Len(log.cpu[1]) = MaxTicks
    /\ Len(log.cpu[2]) = MaxTicks - 1
    /\ Last(cpu_history[2]) = F64(20)

\* C22: the device names of the disk table only grow.  Every step keeps every name
\* of the table; a tick adds the filter-accepted names its provider output holds
\* (all of them when it returns); and only filter-accepted names are ever added.
C22_TableGrows ==
    [][/\ DOMAIN disks \subseteq DOMAIN disks'
       /\ ev'.kind = "tick" =>
             /\ ~crashed' => Reported(ev'.blk) \subseteq DOMAIN disks'
             /\ DOMAIN disks' \subseteq DOMAIN disks \cup Reported(ev'.blk)
      ]_vars

\* hda has a record with one delta, and the last tick's provider output held
\* nvme0n1 only: hda is still in the table.
C22_Witness ==
    /\ ev.kind = "tick"
    /\ ev.blk.ok
    /\ DOMAIN ev.blk.stats = {Nvme0n1}
    /\ DOMAIN disks = {Hda, Nvme0n1}
    /\ Len(log.disk[Hda]) = 1
    /\ Len(log.disk[Nvme0n1]) > 1

\* A tick pushes the first delta of device n.
FirstDelta(n) ==
    /\ n \in Reported(ev'.blk)
    /\ n \in DOMAIN log.disk => log.disk[n] = <<>>
    /\ n \in DOMAIN log'.disk
    /\ log'.disk[n] # <<>>

\* C23 as stated: the first delta pushed for any device, first seen at startup or
\* in a later tick, is its full cumulative (read, write) counters at that point.
C23_FirstDeltaFull ==
    [][ev'.kind = "tick" =>
          \A n \in Reported(ev'.blk) :
              FirstDelta(n) => log'.disk[n][1] = Reading(ev'.blk, n)
      ]_vars

\* C23 as the code has it: a device first seen in a tick gets a record with previous
\* value 0, and the delta pushed in that tick is its full cumulative counters; a
\* device seen by App::new gets the counters read then as its previous value and
\* no delta, and the first delta pushed for it is its counters minus those.
C23_FirstDeltaInTick ==
    /\ [](ev.kind = "new" =>
            \A n \in Reported(ev.blk) :
                /\ disks[n].prev = Reading(ev.blk, n)
                /\ disks[n].history = Repeat(DiskInfoDefault, HISTORY_LEN)
                /\ log.disk[n] = <<>>)
    /\ [][ev'.kind = "tick" =>
            \A n \in Reported(ev'.blk) :
                /\ (n \notin DOMAIN disks /\ n \in DOMAIN disks') =>
                       /\ log'.disk[n] = <<Reading(ev'.blk, n)>>
                       /\ Last(disks'[n].history) = Reading(ev'.blk, n)
                /\ (n \in DOMAIN disks /\ FirstDelta(n)) =>
                       /\ NonDecreasing(disks[n].prev, Reading(ev'.blk, n)) =>
                              log'.disk[n][1] =
                                 [r_sectors |-> Reading(ev'.blk, n).r_sectors
                                                  - disks[n].prev.r_sectors,
                                  w_sectors |-> Reading(ev'.blk, n).w_sectors
                                                  - disks[n].prev.w_sectors]
                       /\ Last(disks'[n].history) = log'.disk[n][1]
      ]_vars

\* nvme0n1 was read as (100, 50) by App::new and as (150, 80) by the first tick,
\* which also saw hda for the first time at (9, 4): the first deltas are (50, 30)
\* and (9, 4).
C23_Witness ==
    /\ ev.kind = "tick"
    /\ Ticks = 1
    /\ {Nvme0n1, Hda} \subseteq DOMAIN log.disk
    /\ log.disk[Nvme0n1] = <<[r_sectors |-> 50, w_sectors |-> 30]>>
    /\ Hda \in DOMAIN disks
    /\ log.disk[Hda] = <<[r_sectors |-> 9, w_sectors |-> 4]>>
    /\ disks[Hda].prev = [r_sectors |-> 9, w_sectors |-> 4]

\* C24: after every tick, whether or not the CPU refresh was skipped, the process
\* list holds exactly the processes the provider returned in that tick, one entry
\* each and in the provider's order, and each entry's cpu is the provider's usage
\* of the process divided by the core count.
C24_ProcessSnapshot ==
    [][ev'.kind = "tick" =>
          /\ Len(processes') = Len(ev'.procs)
          /\ \A i \in 1..Len(ev'.procs) :
                /\ processes'[i].pid = ev'.procs[i].pid
                /\ processes'[i].name = ev'.procs[i].name
                /\ processes'[i].mem = ev'.procs[i].memory
                /\ processes'[i].disk_r = ev'.procs[i].read_bytes
                /\ processes'[i].disk_w = ev'.procs[i].written_bytes
                /\ processes'[i].cpu[1] * Len(cpu_history)
                      = ev'.procs[i].cpu_usage * processes'[i].cpu[2]
      ]_vars

\* Two processes were listed, then a tick returned sh alone, using 190 % of two
\* cores: the list is sh at 95 %.
C24_Witness ==
    /\ ev.kind = "tick"
    /\ Ticks > 1
    /\ Len(cpu_history) = 2
    /\ Pids(processes) = <<2>>
    /\ processes[1].cpu = <<95, 1>>

\* C25: right after App::new the App is running and in SortSelect{Cpu, Descending};
\* it is never in Search.
C25_InitialState ==
    ev.kind = "new" =>
        /\ running = TRUE
        /\ input_state =
              [tag |-> "ProcessesSortSelection", column |-> "Cpu", direction |-> "Descending"]
        /\ ~InSearch(input_state)

\* An App just built, on a machine whose block devices could not be listed.
C25_Witness ==
    /\ ev.kind = "new"
    /\ ~ev.blk.ok
    /\ running
    /\ input_state.column = "Cpu"
    /\ input_state.direction = "Descending"
    /\ Ticks = 0

\* C28: in every reachable Search state the saved column and the saved direction
\* are present; and in every reachable state exactly one of the two modes is active.
C28_SavedPresent ==
    /\ InSearch(input_state) =>
          /\ \E c \in Columns : input_state.old_column = <<c>>
          /\ \E d \in Directions : input_state.old_direction = <<d>>
    /\ InSort(input_state) # InSearch(input_state)
    /\ InSort(input_state) =>
          input_state.column \in Columns /\ input_state.direction \in Directions

\* A search entered from SortSelect{DiskRead, Ascending}, with text typed.
C28_Witness ==
    input_state = ProcessesSearch(<<"DiskRead">>, <<"Ascending">>, <<"r", "w">>)

\* C29: a key event of kind Release changes neither the interaction state nor
\* running, in either mode.
C29_ReleaseIgnored ==
    [][(KeyStep /\ ev'.key.kind = "Release")
       => input_state' = input_state /\ running' = running
      ]_vars

\* C30: in Search mode q pressed without modifiers appends q to the text and leaves
\* running true; the App stops from Search mode only on Ctrl-C with CONTROL as the
\* only modifier, and that key leaves the text as it is.
C30_QuitFromSearch ==
    [][(KeyStep /\ InSearch(input_state)) =>
          /\ (/\ ev'.key.code = [t |-> "Char", c |-> "q"]
              /\ ev'.key.modifiers = {}
              /\ ev'.key.kind = "Press")
             => /\ input_state' = [input_state EXCEPT !.search = @ \o <<"q">>]
                /\ running' = TRUE
          /\ running' = FALSE <=> IsQuit(ev'.key)
          /\ IsQuit(ev'.key) => input_state' = input_state
      ]_vars

\* q was typed in a search, twice: the text is "qq" and the App still runs.
C30_Witness ==
    /\ ev.kind = "key"
    /\ ev.key.code.c = "q"
    /\ running
    /\ InSearch(input_state)
    /\ input_state.search = <<"q", "q">>

\* Ctrl-Shift-C in a search is text: the App still runs and C was appended.
C30_WitnessShift ==
    /\ ev.kind = "key"
    /\ ev.key.modifiers = {"CONTROL", "SHIFT"}
    /\ running
    /\ InSearch(input_state)
    /\ input_state.search = <<"C">>

\* The hex digits, lower-case and upper-case, in the order of their values.
LowerHex == <<"0", "1", "2", "3", "4", "5", "6", "7", "8", "9", "a", "b", "c", "d", "e", "f">>

UpperHex == <<"0", "1", "2", "3", "4", "5", "6", "7", "8", "9", "A", "B", "C", "D", "E", "F">>

IsHex(c) == c \in Range(LowerHex) \cup Range(UpperHex)

\* The value of a hex digit, whatever its case.
HexValue(c) == (CHOOSE i \in 1..16 : LowerHex[i] = c \/ UpperHex[i] = c) - 1

\* C26: for an RGB color with components in 0..255 the serialized form is '#'
\* followed by six lower-case hex digits, and deserializing it gives the same color.
C26_ColorRoundTrip ==
    /\ (ev.kind = "serialized" /\ ev.color[1] = "Rgb") =>
          /\ ev.result[1] = "Ok"
          /\ Len(ev.text) = 7
          /\ ev.text[1] = "#"
          /\ \A i \in 2..7 : ev.text[i] \in Range(LowerHex)
    /\ (ev.kind = "deserialized" /\ ev.color # <<>>) =>
          /\ ev.result[1] = "Ok"
          /\ ev.result[2] = ev.color

\* Rgb(12, 240, 144) was written as #0cf090 and read back.
C26_Witness ==
    /\ ev.kind = "deserialized"
    /\ ev.color = <<"Rgb", 12, 240, 144>>
    /\ ev.text = <<"#", "0", "c", "f", "0", "9", "0">>
    /\ ev.result[2] = <<"Rgb", 12, 240, 144>>

\* '#' followed by six hex digits of either case.
WellFormed(t) == Len(t) = 7 /\ t[1] = "#" /\ \A i \in 2..7 : IsHex(t[i])

\* C27: deserialization accepts exactly the strings '#' followed by six hex digits
\* of either case, and the color is given by the digits' values whatever their
\* case; every other string (not ASCII, not 7 characters long, not starting with
\* '#', holding a character that is no hex digit) gives an error and no color;
\* serializing a color that is not RGB is an error.
C27_ColorRejects ==
    /\ ev.kind = "deserialized" =>
          /\ ev.result[1] \in {"Ok", "Err"}
          /\ ev.result[1] = "Ok" <=> WellFormed(ev.text)
          /\ WellFormed(ev.text) =>
                ev.result[2] = <<"Rgb",
                                 HexValue(ev.text[2]) * 16 + HexValue(ev.text[3]),
                                 HexValue(ev.text[4]) * 16 + HexValue(ev.text[5]),
                                 HexValue(ev.text[6]) * 16 + HexValue(ev.text[7])>>
    /\ (ev.kind = "serialized" /\ ev.color[1] # "Rgb") =>
          ev.result[1] = "Err" /\ ev.text = <<>>

\* #AABBCC was read as Rgb(0xaa, 0xbb, 0xcc).
C27_Witness ==
    /\ ev.kind = "deserialized"
    /\ ev.text = <<"#", "A", "A", "B", "B", "C", "C">>
    /\ ev.result = <<"Ok", <<"Rgb", 170, 187, 204>>>>

\* #aabbcc gives the same color.
C27_WitnessLower ==
    /\ ev.kind = "deserialized"
    /\ ev.text = <<"#", "a", "a", "b", "b", "c", "c">>
    /\ ev.result = <<"Ok", <<"Rgb", 170, 187, 204>>>>

\* A string of 8 characters that starts like a color was rejected.
C27_WitnessRejected ==
    /\ ev.kind = "deserialized"
    /\ Len(ev.text) = 8
    /\ ev.text[1] = "#"
    /\ ev.result[1] = "Err"

\* C31: quit is absorbing.  No key event handled with running false would set it to
\* true (and a tick does not assign running); and once running is false the main
\* loop handles no event: every step of the program starts with running true, so
\* the event that set running to false is the last one handled.
C31_QuitAbsorbing ==
    /\ [](\A key \in env.keys :
             handle_key_events(key, input_state, FALSE).running = FALSE)
    /\ [][running /\ (ev'.kind = "tick" => running')]_vars
    /\ [](~running => ev.kind = "key" /\ (IsQuit(ev.key) \/ ev.key.code.c = "q"))

\* The App was stopped by Ctrl-C after a tick, with ticks still to come.
C31_Witness ==
    /\ ~running
    /\ ev.kind = "key"
    /\ IsQuit(ev.key)
    /\ Ticks = 1
    /\ Ticks < env.ticks

\* C32: a tick leaves the record of a device its provider output does not name as
\* it was (previous pair, window, nothing pushed); and the delta a returning tick
\* pushes for a device is its reading minus the last pair read for it, however
\* many ticks ago that was (for readings that did not go down).
C32_AbsentUntouched ==
    [][ev'.kind = "tick" =>
          \A n \in DOMAIN disks :
              /\ n \notin Reported(ev'.blk) =>
                     /\ disks'[n] = disks[n]
                     /\ log'.disk[n] = log.disk[n]
              /\ (/\ n \in Reported(ev'.blk)
                  /\ ~crashed'
                  /\ NonDecreasing(Last(log.seen[n]), Reading(ev'.blk, n))) =>
                     Last(disks'[n].history) =
                        [r_sectors |-> Reading(ev'.blk, n).r_sectors
                                         - Last(log.seen[n]).r_sectors,
                         w_sectors |-> Reading(ev'.blk, n).w_sectors
                                         - Last(log.seen[n]).w_sectors]
      ]_vars

\* nvme0n1 was read as (100, 50) and (150, 80), was then missing from a tick and
\* came back at (150, 90): its window holds (50, 30) and (0, 10), no sample for the
\* tick without it.
C32_Witness ==
    /\ ev.kind = "tick"
    /\ Ticks = 3
    /\ Nvme0n1 \in DOMAIN disks
    /\ Len(log.seen[Nvme0n1]) = 3
    /\ log.disk[Nvme0n1] = <<[r_sectors |-> 50, w_sectors |-> 30],
                             [r_sectors |-> 0, w_sectors |-> 10]>>
    /\ disks[Nvme0n1].history = FifoContent(log.disk[Nvme0n1], DiskInfoDefault)
    /\ disks[Nvme0n1].prev = [r_sectors |-> 150, w_sectors |-> 90]

\* The sum of a sequence of deltas.
RECURSIVE SumOfDeltas(_)
SumOfDeltas(deltas) ==
    IF deltas = <<>> THEN DiskInfoDefault
    ELSE [r_sectors |-> Head(deltas).r_sectors + SumOfDeltas(Tail(deltas)).r_sectors,
          w_sectors |-> Head(deltas).w_sectors + SumOfDeltas(Tail(deltas)).w_sectors]

\* The pairs read for a device never went down.
NeverDecreased(pairs) ==
    \A i \in 1..(Len(pairs) - 1) : NonDecreasing(pairs[i], pairs[i + 1])

\* C33: for a device whose counters never went down, after any sequence of ticks
\* the stored previous pair is the pair read last, one delta was pushed per tick
\* that reported the device, and the deltas sum to the pair read last minus the
\* previous pair the record was created with.
C33_Telescopes ==
    ~crashed =>
        \A n \in DOMAIN disks :
            NeverDecreased(log.seen[n]) =>
                /\ disks[n].prev = Last(log.seen[n])
                /\ Len(log.disk[n]) = Len(log.seen[n]) - 1
                /\ SumOfDeltas(log.disk[n]) =
                      [r_sectors |-> Last(log.seen[n]).r_sectors - log.seen[n][1].r_sectors,
                       w_sectors |-> Last(log.seen[n]).w_sectors - log.seen[n][1].w_sectors]

\* nvme0n1 went from (100, 50) at startup over (150, 80) to (150, 90), in ticks
\* with a tick that did not report it in between: the deltas sum to (50, 40).
C33_Witness ==
    /\ ~crashed
    /\ Nvme0n1 \in DOMAIN disks
    /\ Ticks > 2
    /\ log.seen[Nvme0n1] = <<[r_sectors |-> 100, w_sectors |-> 50],
                             [r_sectors |-> 150, w_sectors |-> 80],
                             [r_sectors |-> 150, w_sectors |-> 90]>>
    /\ SumOfDeltas(log.disk[Nvme0n1]) = [r_sectors |-> 50, w_sectors |-> 40]
    /\ disks[Nvme0n1].prev = [r_sectors |-> 150, w_sectors |-> 90]

\* Every series of a chart has exactly HISTORY_LEN points and a last value.
Drawable(chart) ==
    \A i \in 1..Len(chart) :
        /\ Len(chart[i]) = HISTORY_LEN
        /\ LastValues(chart)[i] # "panic"

\* C34: in every state the main loop draws (the program has not panicked), every
\* series of the CPU chart, the memory chart and the disk chart has exactly
\* HISTORY_LEN points, so its last point exists, and is the window's last sample;
\* there is one CPU series per window, one memory series and two per disk record;
\* with an empty disk table the disk chart has no series and its range ends at 1.0.
C34_ChartsRender ==
    ~crashed =>
        /\ Len(CpuChart) = Len(cpu_history) /\ Drawable(CpuChart)
        /\ \A i \in 1..Len(cpu_history) : LastValues(CpuChart)[i] = Last(cpu_history[i])
        /\ Len(MemChart) = 1 /\ Drawable(MemChart)
        /\ LastValues(MemChart)[1] = Last(mem_history)
        /\ Len(DiskChart) = 2 * Cardinality(DOMAIN disks) /\ Drawable(DiskChart)
        /\ disks = <<>> => DiskChart = <<>> /\ DisksNew(disks).range = <<F64(0), F64(1)>>

\* Two disk records after the windows have wrapped: four disk series, and the
\* read series of nvme0n1 ends at the 50 sectors of the last tick.
C34_Witness ==
    /\ ~crashed
    /\ Ticks = MaxTicks
    /\ DOMAIN disks = {Hda, Nvme0n1}
    /\ Len(DiskChart) = 4
    /\ Len(DiskChart[3]) = HISTORY_LEN
    /\ LastValues(DiskChart)[3] = to_mb(50)
    /\ DisksNew(disks).range[2] # F64(1)

\* No block device was ever listed: the disk chart is empty, with range 0 to 1.
C34_WitnessNoDisks ==
    /\ ~crashed
    /\ Ticks > 0
    /\ disks = <<>>
    /\ DiskChart = <<>>
    /\ DisksNew(disks).range = <<F64(0), F64(1)>>

\* JWTOP_CONFIG_DIR is set, to a value that names a directory.
VarSet(var) == var # <<"Err", "NotPresent">>

VarDir(var) == IF var[1] = "Ok" THEN var[2] ELSE EnvDir

\* The platform default directory exists.
DefaultExists(dirs, fs) == dirs # <<>> /\ dirs[1] \in fs

\* C35: config_path follows a strict precedence.  A path on the command line is
\* the answer when it exists and an error when it does not, whatever the variable
\* and the default are; else the variable, when set, is the answer when it exists
\* and an error when it does not; else the default directory is the answer when it
\* exists and the answer is no directory, not an error, when it does not, and
\* Config::load then gives the default Config.
C35_ConfigPrecedence ==
    /\ ev.kind = "config_path" =>
          IF ev.cli # <<>>
          THEN IF ev.cli[1] \in ev.fs
               THEN ev.result = <<"Ok", ev.cli>>
               ELSE ev.result[1] = "Err"
          ELSE IF VarSet(ev.var)
          THEN IF VarDir(ev.var) \in ev.fs
               THEN ev.result = <<"Ok", <<VarDir(ev.var)>>>>
               ELSE ev.result[1] = "Err"
          ELSE IF DefaultExists(ev.dirs, ev.fs)
               THEN ev.result = <<"Ok", ev.dirs>>
               ELSE ev.result = <<"Ok", <<>>>>
    /\ (/\ ev.kind = "load"
        /\ ev.cli = <<>>
        /\ ~VarSet(ev.var)
        /\ ~DefaultExists(ev.dirs, ev.fs)) => ev.result = <<"Ok", "Default">>

\* The same precedence holds on every machine that has a home directory and
\* whose variable, if set, is valid Unicode.
C35_PrecedenceWithHome ==
    (ev.dirs # <<>> /\ ev.var # <<"Err", "NotUnicode">>) => C35_ConfigPrecedence

\* No path on the command line, no variable, no home directory: config_path
\* panics.
C35_PanicReached ==
    /\ ev.kind = "config_path"
    /\ ev.cli = <<>>
    /\ ev.var = <<"Err", "NotPresent">>
    /\ ev.dirs = <<>>
    /\ ev.result = <<"panic">>

====
